---- MODULE Spec2Model ----
(***************************************************************************)
(* Model of the nust-lang front end (davidtranhq/nust-lang): the type and  *)
(* borrow checker of src/src/type_checker.cpp over the AST of              *)
(* src/include/parser/parser.h.                                            *)
(*                                                                         *)
(* A Type (parser.h:225-247) is a chain kind -> base_type -> ... ; it is   *)
(* written here as the sequence of its kinds, outermost first.  A chain    *)
(* that ends in "Ref" or "MutRef" is a reference whose base_type pointer   *)
(* is null; the empty sequence is a null std::unique_ptr<Type>.            *)
(***************************************************************************)
EXTENDS Integers, Sequences, FiniteSets, TLC

\* ------------------------------------------------------------------ bounds
MaxTypeDepth == 3

\* per program: let and expression statements checked, and if, while and
\* block statements entered; per function: how deep statements nest
MaxStmts == 2

MaxBlocks == 1

MaxNest == 3

\* if, while and block statements lowered per program by the compiler
MaxCompound == 2

\* operators in a chain of binary operators given to the parser
MaxOps == 3

\* pairs of parentheses around the target of an assignment given to the parser
MaxParens == 2

\* instructions in a sequence handed to the output of the CLI
MaxIns == 2

\* ------------------------------------------------------------------- types
PrimKinds == {"I32", "Bool", "Str"}

RefKinds == {"Ref", "MutRef"}

NullType == <<>>

\* every chain of kinds: references over an optional primitive leaf
RECURSIVE Chains(_)
Chains(n) ==
    IF n = 0 THEN {<<>>}
    ELSE LET shorter == Chains(n - 1)
         IN  shorter \cup {<<k>> : k \in PrimKinds}
                     \cup {<<k>> \o c : k \in RefKinds, c \in shorter}

\* a type whose every reference level has a base type (what parse_type builds)
WellFormed(t) ==
    /\ Len(t) >= 1
    /\ t[Len(t)] \in PrimKinds
    /\ \A i \in 1..(Len(t) - 1) : t[i] \in RefKinds

\* the types the parser can build from source text, up to the depth bound
DeclTypes == {t \in Chains(MaxTypeDepth) : WellFormed(t)}

\* Some reference level of t has a null base_type.
HasNullBase(t) == Len(t) >= 1 /\ t[Len(t)] \in RefKinds

\* The copy idiom the checker uses everywhere except Assignment: a new Type
\* with t's kind and, if t has a base type, a new base Type with the base's
\* kind only (the base's own base_type is not copied).
ShallowCopy(t) == IF Len(t) <= 2 THEN t ELSE SubSeq(t, 1, 2)

\* Type::clone: deep copy
Clone(t) == t

\* std::make_unique<Type>(kind, std::move(base), span)
MakeRef(kind, base) == <<kind>> \o base

\* is_assignable with the weakening accepted in both directions
RECURSIVE is_assignable_symmetric(_, _)
is_assignable_symmetric(target, source) ==
    IF target = NullType \/ source = NullType THEN "ub"
    ELSE IF target[1] = source[1]
         THEN IF target[1] \in RefKinds
              THEN is_assignable_symmetric(Tail(target), Tail(source))
              ELSE "true"
         ELSE IF target[1] \in RefKinds /\ source[1] \in RefKinds
              THEN is_assignable_symmetric(Tail(target), Tail(source))
              ELSE "false"

\* is_assignable, with "ub" where the code dereferences a null base_type or
\* is handed a dereferenced null type pointer
RECURSIVE is_assignable(_, _)
is_assignable(target, source) ==
    IF target = NullType \/ source = NullType THEN "ub"
    ELSE IF target[1] = source[1]
         THEN IF target[1] \in RefKinds
              THEN is_assignable(Tail(target), Tail(source))
              ELSE "true"
         ELSE IF target[1] = "Ref" /\ source[1] = "MutRef"
              THEN is_assignable(Tail(target), Tail(source))
              ELSE "false"

RECURSIVE is_compatible(_, _)
is_compatible(lhs, rhs) ==
    IF lhs = NullType \/ rhs = NullType THEN "ub"
    ELSE IF lhs[1] = rhs[1]
         THEN IF lhs[1] \in RefKinds
              THEN is_compatible(Tail(lhs), Tail(rhs))
              ELSE "true"
         ELSE IF \/ (lhs[1] = "Ref" /\ rhs[1] = "MutRef")
                 \/ (lhs[1] = "MutRef" /\ rhs[1] = "Ref")
              THEN is_compatible(Tail(lhs), Tail(rhs))
              ELSE "false"

\* ------------------------------------------------------------- expressions
\* An Expr node is [k, a, sub]: k the node class, a its name or operator,
\* sub its child expressions (for a call: the callee, then the arguments).
IntLiteral == [k |-> "int", a |-> "", sub |-> <<>>]

BoolLiteral == [k |-> "bool", a |-> "", sub |-> <<>>]

StringLiteral == [k |-> "str", a |-> "", sub |-> <<>>]

Identifier(name) == [k |-> "ident", a |-> name, sub |-> <<>>]

BinaryExpr(op, left, right) == [k |-> "binary", a |-> op, sub |-> <<left, right>>]

UnaryExpr(op, operand) == [k |-> "unary", a |-> op, sub |-> <<operand>>]

BorrowExpr(is_mut, operand) ==
    [k |-> "borrow", a |-> IF is_mut THEN "mut" ELSE "shared", sub |-> <<operand>>]

CallExpr(callee, args) == [k |-> "call", a |-> "", sub |-> <<callee>> \o args]

ArithOps == {"Add", "Sub", "Mul", "Div"}

CompareOps == {"Eq", "Ne", "Lt", "Gt", "Le", "Ge"}

LogicOps == {"And", "Or"}

\* --------------------------------------------------------------- the state
VARIABLES
    program,    \* program_->items: the FunctionDecls [name, params, ret]
    scopes,     \* scopes_: stack of maps name -> VariableInfo
    errors,     \* errors_
    fi,         \* index of the item check_program's loop is at
    pc,         \* where the checker is
    ctl,        \* the statements check_statement is inside of, outermost first
    success,    \* check_function's local `success`
    result,     \* what check_program returned
    untyped,    \* an expression node of a checked function was left with a null type
    nstmts,     \* let and expression statements checked so far
    nblocks,    \* if, while and block statements entered so far
    trailing,   \* the check of the function body's last statement, when an ExprStmt
    asg,        \* the is_assignable call under examination
    instructions,       \* Compiler::instructions
    string_constants,   \* Compiler::string_constants
    local_vars,         \* Compiler::local_vars: map name -> local index
    next_local_index,   \* Compiler::next_local_index
    function_table,     \* Compiler::function_table: [functions, name_to_index]
    thrown,     \* what() of the exception Compiler::compile has thrown, "" if none
    accepted,   \* the type checker accepts what has been compiled so far
    slots,      \* the local indices compile_let has given: [fn, name, index]
    jumps,      \* the if and while statements lowered, with where their parts ended
    ranges,     \* per compiled function: [entry, end, locals]
    source,     \* Parser::source, as the sequence of its characters
    parsed,     \* what parse_statement returned or threw, and Parser::pos then
    given,      \* what the source was written from
    run,        \* a run of the CLI: its argument count and what each step meets
    ns,         \* the .ns file
    no,         \* the .no file
    exit_code   \* what main returned, "none" while it runs

\* the state of the compiler and what is recorded of its run
cvars == <<instructions, string_constants, local_vars, next_local_index,
           function_table, thrown, accepted, slots, jumps, ranges>>

\* a run of main and its files
mvars == <<run, ns, no, exit_code>>

\* the state of the parser
pvars == <<source, parsed, given>>

vars == <<program, scopes, errors, fi, pc, ctl, success, result,
          untyped, nstmts, nblocks, trailing, asg, cvars, pvars, mvars>>

\* parse_statement has not been called
NotParsed == [expr |-> [k |-> "none", a |-> "", sub |-> <<>>], pos |-> 0,
              err |-> "", raw |-> FALSE]

\* main is not running
NoMain ==
    /\ run = [argc |-> 0]
    /\ ns = [state |-> "absent", content |-> <<>>]
    /\ no = [state |-> "absent", content |-> <<>>]
    /\ exit_code = "none"

\* no parser is at work, and main is not running
NoParser ==
    /\ source = <<>>
    /\ parsed = NotParsed
    /\ given = [kind |-> "none"]
    /\ NoMain

\* ------------------------------------------------------------ scope access
\* A VariableInfo is [type, is_mut]; three history fields ride along with it:
\* borrowed (a `&mut` that resolved to this binding was checked successfully),
\* at (the number of frames on the stack when that happened, 0 before) and
\* decl (the type written in its declaration).
VariableInfo(type, is_mut, decl) ==
    [type |-> type, is_mut |-> is_mut, borrowed |-> FALSE, at |-> 0,
     decl |-> decl]

\* index of the innermost frame of sc that declares name, 0 if none
RECURSIVE FrameOf(_, _, _)
FrameOf(sc, name, i) ==
    IF i = 0 THEN 0
    ELSE IF name \in DOMAIN sc[i] THEN i
    ELSE FrameOf(sc, name, i - 1)

lookup_variable(sc, name) ==
    LET i == FrameOf(sc, name, Len(sc))
    IN  IF i = 0
        THEN [found |-> FALSE, type |-> NullType, is_mut |-> FALSE]
        ELSE [found |-> TRUE, type |-> ShallowCopy(sc[i][name].type),
              is_mut |-> sc[i][name].is_mut]

\* declare_variable on a non-empty stack: FALSE result when name is already in
\* the innermost frame
declare_variable(sc, name, type, is_mut, decl) ==
    LET top == sc[Len(sc)]
    IN  IF name \in DOMAIN top
        THEN [ok |-> FALSE, sc |-> sc]
        ELSE [ok |-> TRUE,
              sc |-> [sc EXCEPT ![Len(sc)] =
                        [n \in DOMAIN top \cup {name} |->
                            IF n = name THEN VariableInfo(type, is_mut, decl)
                            ELSE top[n]]]]

enter_scope(sc) == Append(sc, <<>>)

\* leaving a scope ends the mutable borrows made in it
exit_scope_ReleasesBorrows(sc) ==
    [i \in 1..(Len(sc) - 1) |->
        [n \in DOMAIN sc[i] |->
            IF sc[i][n].at = Len(sc)
            THEN [sc[i][n] EXCEPT !.type = Tail(@)]
            ELSE sc[i][n]]]

exit_scope(sc) == SubSeq(sc, 1, Len(sc) - 1)

\* a successful `&mut name` that leaves the stored types as they are
MarkBorrowed_TypeKept(sc, name) ==
    LET inner == FrameOf(sc, name, Len(sc))
    IN  [i \in DOMAIN sc |->
            IF name \in DOMAIN sc[i]
            THEN [sc[i] EXCEPT ![name] =
                    [@ EXCEPT !.borrowed = (@ \/ i = inner),
                              !.at = IF i = inner /\ @ = 0 THEN Len(sc) ELSE @]]
            ELSE sc[i]]

\* the frames of sc after a successful `&mut name`: the stored type of name
\* is replaced in every frame that holds the name
MarkBorrowed(sc, name) ==
    LET inner == FrameOf(sc, name, Len(sc))
    IN  [i \in DOMAIN sc |->
            IF name \in DOMAIN sc[i]
            THEN [sc[i] EXCEPT ![name] =
                    [@ EXCEPT !.type = MakeRef("MutRef", ShallowCopy(@)),
                              !.borrowed = (@ \/ i = inner),
                              !.at = IF i = inner /\ @ = 0 THEN Len(sc) ELSE @]]
            ELSE sc[i]]

\* position in program of the first function called name, 0 if none
RECURSIVE FindFunction(_, _, _)
FindFunction(items, name, i) ==
    IF i > Len(items) THEN 0
    ELSE IF items[i].name = name THEN i
    ELSE FindFunction(items, name, i + 1)

\* -------------------------------------------------------- check_expression
NoError == <<"", "">>

\* what the build does where the code's behaviour is undefined: the call
\* yields true, yields false, or the process dies
UBOutcomes == {"true", "false", "crash"}

Outcome(v, ub) == IF v = "ub" THEN ub ELSE v

\* one call of check_expression: the node, the scope stack it started from
\* and the one it left, its return value, the type it put in the node's type
\* slot, the error it recorded
Event(e, pre, post, ok, ty, err) ==
    [e |-> e, pre |-> pre, post |-> post, ok |-> ok, ty |-> ty, err |-> err]

\* check_expression returns false after recording err
Reject(e, pre, sc, err, ev, ubhit) ==
    [ok |-> FALSE, ty |-> NullType, sc |-> sc, errs |-> <<err>>,
     ev |-> Append(ev, Event(e, pre, sc, FALSE, NullType, err)),
     ub |-> ubhit, crash |-> FALSE, mutb |-> FALSE]

\* check_expression returns false because the check of a child did (r)
Propagate(e, pre, r) ==
    [r EXCEPT !.ok = FALSE, !.ty = NullType, !.mutb = FALSE,
              !.ev = Append(r.ev, Event(e, pre, r.sc, FALSE, NullType, NoError))]

\* the process died inside this call
Crash(e, pre, sc, ev) ==
    [ok |-> FALSE, ty |-> NullType, sc |-> sc, errs |-> <<>>,
     ev |-> Append(ev, Event(e, pre, sc, FALSE, NullType, NoError)),
     ub |-> TRUE, crash |-> TRUE, mutb |-> FALSE]

\* check_expression returns true with the node's type slot holding ty
Accept(e, pre, sc, ty, ev, ubhit, mutb) ==
    [ok |-> TRUE, ty |-> ty, sc |-> sc, errs |-> <<>>,
     ev |-> Append(ev, Event(e, pre, sc, TRUE, ty, NoError)),
     ub |-> ubhit, crash |-> FALSE, mutb |-> mutb]

RECURSIVE check_expression(_, _, _)
RECURSIVE CheckArgs(_, _, _, _, _, _, _)

\* the Identifier case with is_mut_binding set whatever the binding is
CheckIdentifier_AlwaysMut(e, sc, ub) ==
    IF FindFunction(program, e.a, 1) # 0
    THEN Accept(e, sc, sc, NullType, <<>>, FALSE, FALSE)
    ELSE LET var_info == lookup_variable(sc, e.a)
         IN  IF ~var_info.found
             THEN Reject(e, sc, sc, <<"Undefined variable", e.a>>, <<>>, FALSE)
             ELSE Accept(e, sc, sc, ShallowCopy(var_info.type), <<>>, FALSE, TRUE)

CheckIdentifier(e, sc, ub) ==
    IF FindFunction(program, e.a, 1) # 0
    THEN Accept(e, sc, sc, NullType, <<>>, FALSE, FALSE)
    ELSE LET var_info == lookup_variable(sc, e.a)
         IN  IF ~var_info.found
             THEN Reject(e, sc, sc, <<"Undefined variable", e.a>>, <<>>, FALSE)
             ELSE Accept(e, sc, sc, ShallowCopy(var_info.type), <<>>, FALSE,
                         var_info.is_mut)

\* the Assignment case with the borrow test made after the right side and
\* its type have been checked
CheckAssignment_BorrowTestLast(e, sc, ub) ==
    LET left == e.sub[1]
        right == e.sub[2]
    IN  IF left.k # "ident"
        THEN Reject(e, sc, sc,
                    <<"Left side of assignment must be an identifier", "">>,
                    <<>>, FALSE)
        ELSE
        LET var_info == lookup_variable(sc, left.a)
        IN  IF ~var_info.found
            THEN Reject(e, sc, sc, <<"Undefined variable", left.a>>, <<>>, FALSE)
            ELSE IF ~var_info.is_mut
            THEN Reject(e, sc, sc,
                        <<"Cannot assign to immutable variable", left.a>>,
                        <<>>, FALSE)
            ELSE
            LET r == check_expression(right, sc, ub)
            IN  IF ~r.ok THEN Propagate(e, sc, r)
                ELSE
                LET raw == is_assignable(var_info.type, r.ty)
                    a == Outcome(raw, ub)
                    hit == r.ub \/ raw = "ub"
                IN  IF a = "crash" THEN Crash(e, sc, r.sc, r.ev)
                    ELSE IF a = "false"
                    THEN Reject(e, sc, r.sc,
                                <<"Type mismatch in assignment", "">>, r.ev, hit)
                    ELSE IF var_info.type[1] = "MutRef"
                    THEN Reject(e, sc, r.sc,
                                <<"Cannot use variable while mutably borrowed",
                                  left.a>>, r.ev, hit)
                    ELSE Accept(e, sc, r.sc, Clone(r.ty), r.ev, hit, FALSE)

CheckAssignment(e, sc, ub) ==
    LET left == e.sub[1]
        right == e.sub[2]
    IN  IF left.k # "ident"
        THEN Reject(e, sc, sc,
                    <<"Left side of assignment must be an identifier", "">>,
                    <<>>, FALSE)
        ELSE
        LET var_info == lookup_variable(sc, left.a)
        IN  IF ~var_info.found
            THEN Reject(e, sc, sc, <<"Undefined variable", left.a>>, <<>>, FALSE)
            ELSE IF var_info.type[1] = "MutRef"
            THEN Reject(e, sc, sc,
                        <<"Cannot use variable while mutably borrowed", left.a>>,
                        <<>>, FALSE)
            ELSE IF ~var_info.is_mut
            THEN Reject(e, sc, sc,
                        <<"Cannot assign to immutable variable", left.a>>,
                        <<>>, FALSE)
            ELSE
            LET r == check_expression(right, sc, ub)
            IN  IF ~r.ok THEN Propagate(e, sc, r)
                ELSE
                LET raw == is_assignable(var_info.type, r.ty)
                    a == Outcome(raw, ub)
                    hit == r.ub \/ raw = "ub"
                IN  IF a = "crash" THEN Crash(e, sc, r.sc, r.ev)
                    ELSE IF a = "false"
                    THEN Reject(e, sc, r.sc,
                                <<"Type mismatch in assignment", "">>, r.ev, hit)
                    ELSE Accept(e, sc, r.sc, Clone(r.ty), r.ev, hit, FALSE)

CheckBinary(e, sc, ub) ==
    LET l == check_expression(e.sub[1], sc, ub)
    IN  IF ~l.ok THEN Propagate(e, sc, l)
        ELSE
        LET r0 == check_expression(e.sub[2], l.sc, ub)
            r == [r0 EXCEPT !.ev = l.ev \o r0.ev, !.ub = l.ub \/ r0.ub]
        IN  IF ~r.ok THEN Propagate(e, sc, r)
            ELSE IF l.ty = NullType \/ r.ty = NullType
            THEN Reject(e, sc, r.sc,
                        <<"Invalid operands in binary expression", "">>,
                        r.ev, r.ub)
            ELSE IF e.a \in ArithOps
            THEN IF l.ty[1] # "I32" \/ r.ty[1] # "I32"
                 THEN Reject(e, sc, r.sc,
                        <<"Arithmetic operations require integer operands", "">>,
                        r.ev, r.ub)
                 ELSE Accept(e, sc, r.sc, <<"I32">>, r.ev, r.ub, FALSE)
            ELSE IF e.a \in CompareOps
            THEN LET raw == is_compatible(l.ty, r.ty)
                     c == Outcome(raw, ub)
                     hit == r.ub \/ raw = "ub"
                 IN  IF c = "crash" THEN Crash(e, sc, r.sc, r.ev)
                     ELSE IF c = "false"
                     THEN Reject(e, sc, r.sc,
                                 <<"Incompatible types in comparison", "">>,
                                 r.ev, hit)
                     ELSE Accept(e, sc, r.sc, <<"Bool">>, r.ev, hit, FALSE)
            ELSE IF l.ty[1] # "Bool" \/ r.ty[1] # "Bool"
                 THEN Reject(e, sc, r.sc,
                        <<"Logical operations require boolean operands", "">>,
                        r.ev, r.ub)
                 ELSE Accept(e, sc, r.sc, <<"Bool">>, r.ev, r.ub, FALSE)

CheckUnary(e, sc, ub) ==
    LET r == check_expression(e.sub[1], sc, ub)
    IN  IF ~r.ok THEN Propagate(e, sc, r)
        ELSE IF r.ty = NullType
        THEN Reject(e, sc, r.sc, <<"Invalid operand in unary expression", "">>,
                    r.ev, r.ub)
        ELSE IF e.a = "Neg"
        THEN IF r.ty[1] # "I32"
             THEN Reject(e, sc, r.sc, <<"Negation requires integer operand", "">>,
                         r.ev, r.ub)
             ELSE Accept(e, sc, r.sc, <<"I32">>, r.ev, r.ub, FALSE)
        ELSE IF r.ty[1] # "Bool"
             THEN Reject(e, sc, r.sc,
                         <<"Logical not requires boolean operand", "">>,
                         r.ev, r.ub)
             ELSE Accept(e, sc, r.sc, <<"Bool">>, r.ev, r.ub, FALSE)

CheckBorrow(e, sc, ub) ==
    LET operand == e.sub[1]
        r == check_expression(operand, sc, ub)
        kind == IF e.a = "mut" THEN "MutRef" ELSE "Ref"
    IN  IF ~r.ok THEN Propagate(e, sc, r)
        ELSE IF r.ty = NullType
        THEN Reject(e, sc, r.sc, <<"Invalid operand in borrow expression", "">>,
                    r.ev, r.ub)
        ELSE IF e.a = "mut" /\ operand.k = "ident"
        THEN IF ~r.mutb
             THEN Reject(e, sc, r.sc,
                         <<"Cannot borrow immutable variable as mutable", "">>,
                         r.ev, r.ub)
             ELSE
             LET var_info == lookup_variable(r.sc, operand.a)
             IN  IF var_info.found /\ var_info.type[1] = "MutRef"
                 THEN Reject(e, sc, r.sc,
                             <<"Variable already mutably borrowed", operand.a>>,
                             r.ev, r.ub)
                 ELSE Accept(e, sc,
                             IF var_info.found
                             THEN MarkBorrowed(r.sc, operand.a) ELSE r.sc,
                             MakeRef(kind, ShallowCopy(r.ty)), r.ev, r.ub, FALSE)
        ELSE Accept(e, sc, r.sc, MakeRef(kind, ShallowCopy(r.ty)), r.ev, r.ub,
                    FALSE)

\* the argument loop of a call: argument i of call e against func_decl
CheckArgs(e, pre, func_decl, i, sc, ev, ub) ==
    IF i > Len(e.sub) - 1
    THEN Accept(e, pre, sc, ShallowCopy(func_decl.ret), ev, FALSE, FALSE)
    ELSE
    LET r0 == check_expression(e.sub[i + 1], sc, ub)
        r == [r0 EXCEPT !.ev = ev \o r0.ev]
    IN  IF ~r.ok THEN Propagate(e, pre, r)
        ELSE IF r.ty = NullType
        THEN Reject(e, pre, r.sc, <<"Invalid argument in function call", "">>,
                    r.ev, r.ub)
        ELSE
        LET raw == is_assignable(func_decl.params[i].type, r.ty)
            a == Outcome(raw, ub)
        IN  IF a = "crash" THEN Crash(e, pre, r.sc, r.ev)
            ELSE IF a = "false"
            THEN Reject(e, pre, r.sc,
                        <<"Type mismatch in argument", func_decl.name>>,
                        r.ev, r.ub \/ raw = "ub")
            ELSE
            LET rest == CheckArgs(e, pre, func_decl, i + 1, r.sc, r.ev, ub)
            IN  [rest EXCEPT !.ub = @ \/ r.ub \/ raw = "ub"]

CheckCall(e, sc, ub) ==
    LET callee == e.sub[1]
        c == check_expression(callee, sc, ub)
    IN  IF ~c.ok THEN Propagate(e, sc, c)
        ELSE IF callee.k # "ident"
        THEN Reject(e, sc, c.sc, <<"Function call requires a function name", "">>,
                    c.ev, c.ub)
        ELSE
        LET f == FindFunction(program, callee.a, 1)
        IN  IF f = 0
            THEN Reject(e, sc, c.sc, <<"Undefined function", callee.a>>,
                        c.ev, c.ub)
            ELSE IF Len(e.sub) - 1 # Len(program[f].params)
            THEN Reject(e, sc, c.sc,
                        <<"Wrong number of arguments for function", callee.a>>,
                        c.ev, c.ub)
            ELSE LET r == CheckArgs(e, sc, program[f], 1, c.sc, c.ev, ub)
                 IN  [r EXCEPT !.ub = @ \/ c.ub]

check_expression(e, sc, ub) ==
    CASE e.k = "int" -> Accept(e, sc, sc, <<"I32">>, <<>>, FALSE, FALSE)
      [] e.k = "bool" -> Accept(e, sc, sc, <<"Bool">>, <<>>, FALSE, FALSE)
      [] e.k = "str" -> Accept(e, sc, sc, <<"Str">>, <<>>, FALSE, FALSE)
      [] e.k = "ident" -> CheckIdentifier(e, sc, ub)
      [] e.k = "binary" /\ e.a = "Assignment" -> CheckAssignment(e, sc, ub)
      [] e.k = "binary" /\ e.a # "Assignment" -> CheckBinary(e, sc, ub)
      [] e.k = "unary" -> CheckUnary(e, sc, ub)
      [] e.k = "borrow" -> CheckBorrow(e, sc, ub)
      [] e.k = "call" -> CheckCall(e, sc, ub)

\* --------------------------------------------------------- check_statement
\* The result of the part of a statement that check_statement handles before
\* it returns or descends into a nested statement.
StepResult(ok, sc, errs, ev, ubhit, crash) ==
    [ok |-> ok, sc |-> sc, errs |-> errs, ev |-> ev, ub |-> ubhit,
     crash |-> crash]

\* LetStmt
LetStep(is_mut, name, type, init, sc, ub) ==
    LET r == check_expression(init, sc, ub)
    IN  IF ~r.ok THEN StepResult(FALSE, r.sc, r.errs, r.ev, r.ub, r.crash)
        ELSE
        LET raw == is_assignable(type, r.ty)
            a == Outcome(raw, ub)
            hit == r.ub \/ raw = "ub"
        IN  IF a = "crash" THEN StepResult(FALSE, r.sc, <<>>, r.ev, TRUE, TRUE)
            ELSE IF a = "false"
            THEN StepResult(FALSE, r.sc, <<<<"Type mismatch in let binding", "">>>>,
                            r.ev, hit, FALSE)
            ELSE
            LET d == declare_variable(r.sc, name, ShallowCopy(type), is_mut, type)
            IN  IF ~d.ok
                THEN StepResult(FALSE, r.sc,
                                <<<<"Duplicate variable name", name>>>>,
                                r.ev, hit, FALSE)
                ELSE StepResult(TRUE, d.sc, <<>>, r.ev, hit, FALSE)

\* ExprStmt
ExprStep(e, sc, ub) == check_expression(e, sc, ub)

\* the condition of an IfStmt or WhileStmt
CondStep(cond, msg, sc, ub) ==
    LET r == check_expression(cond, sc, ub)
    IN  IF ~r.ok THEN StepResult(FALSE, r.sc, r.errs, r.ev, r.ub, r.crash)
        ELSE IF r.ty = NullType \/ r.ty[1] # "Bool"
        THEN StepResult(FALSE, r.sc, <<<<msg, "">>>>, r.ev, r.ub, FALSE)
        ELSE StepResult(TRUE, r.sc, <<>>, r.ev, r.ub, FALSE)

\* the return check of check_function on the body's last statement t
\* (<<>> when the body is empty or does not end in an ExprStmt); ok is the
\* value the check leaves in `success`
ReturnStep(t, ret, succ, sc, ub) ==
    IF t = <<>> THEN StepResult(succ, sc, <<>>, <<>>, FALSE, FALSE)
    ELSE
    LET r == check_expression(t[1], sc, ub)
    IN  IF ~r.ok THEN StepResult(FALSE, r.sc, r.errs, r.ev, r.ub, r.crash)
        ELSE
        LET raw == is_assignable(ret, r.ty)
            a == Outcome(raw, ub)
            hit == r.ub \/ raw = "ub"
        IN  IF a = "crash" THEN StepResult(FALSE, r.sc, <<>>, r.ev, TRUE, TRUE)
            ELSE IF a = "false"
            THEN StepResult(FALSE, r.sc,
                            <<<<"Function return type mismatch", "">>>>,
                            r.ev, hit, FALSE)
            ELSE StepResult(succ, r.sc, <<>>, r.ev, hit, FALSE)

\* A frame of ctl is a statement check_statement has descended into.
BlockFrame == [kind |-> "block", has_else |-> FALSE, then_success |-> TRUE]

IfFrame(has_else) == [kind |-> "then", has_else |-> has_else, then_success |-> TRUE]

WhileFrame == [kind |-> "while", has_else |-> FALSE, then_success |-> TRUE]

Pop(q) == SubSeq(q, 1, Len(q) - 1)

\* A statement nested directly in the innermost frame of c has returned r:
\* unwind to the point where checking goes on.  pc "stmts": the next
\* statement of a block; "else": the else branch of an if; "ret": the body
\* has returned to check_function with r.
RECURSIVE Return(_, _, _)
Return(c, sc, r) ==
    IF c = <<>> THEN [ctl |-> c, sc |-> sc, pc |-> "ret", success |-> r]
    ELSE
    LET top == c[Len(c)]
    IN  CASE top.kind = "block" ->
               IF r THEN [ctl |-> c, sc |-> sc, pc |-> "stmts", success |-> TRUE]
               ELSE Return(Pop(c), exit_scope(sc), FALSE)
          [] top.kind = "then" ->
               IF top.has_else
               THEN [ctl |-> [c EXCEPT ![Len(c)] =
                                [kind |-> "else", has_else |-> TRUE,
                                 then_success |-> r]],
                     sc |-> enter_scope(exit_scope(sc)),
                     pc |-> "else", success |-> TRUE]
               ELSE Return(Pop(c), exit_scope(sc), r)
          [] top.kind = "else" ->
               Return(Pop(c), exit_scope(sc), top.then_success /\ r)
          [] top.kind = "while" ->
               Return(Pop(c), exit_scope(sc), r)

\* ------------------------------------------------------------------ inputs
I32 == <<"I32">>

Bool == <<"Bool">>

Param(is_mut, name, type) == [is_mut |-> is_mut, name |-> name, type |-> type]

FunctionDecl(name, params, ret) == [name |-> name, params |-> params, ret |-> ret]

\* the programs checked: two functions each, bodies built statement by
\* statement as the checker walks them
Programs ==
    { <<FunctionDecl("f", <<Param(TRUE, "x", I32), Param(FALSE, "y", I32)>>, I32),
        FunctionDecl("g", <<Param(FALSE, "y", <<"Ref", "I32">>)>>, I32)>>,
      <<FunctionDecl("f", <<Param(TRUE, "x", I32)>>, <<"MutRef", "I32">>),
        FunctionDecl("g", <<>>, <<"Ref", "Ref", "I32">>)>>,
      <<FunctionDecl("f", <<Param(TRUE, "x", <<"MutRef", "I32">>)>>, Bool),
        FunctionDecl("g", <<Param(FALSE, "y", <<"Ref", "I32">>)>>, I32)>>,
      <<FunctionDecl("f", <<Param(FALSE, "x", <<"Ref", "Ref", "I32">>)>>,
                     <<"Ref", "Ref", "I32">>),
        FunctionDecl("g", <<>>, <<"Ref", "Ref", "I32">>)>>,
      <<FunctionDecl("f", <<>>, I32),
        FunctionDecl("g", <<Param(FALSE, "x", I32), Param(FALSE, "x", I32)>>, I32)>>,
      <<FunctionDecl("f", <<Param(TRUE, "x", <<"Ref", "I32">>)>>, I32),
        FunctionDecl("g", <<>>, I32)>> }

VarNames == {"x", "y"}

X == Identifier("x")

Y == Identifier("y")

F == Identifier("f")

G == Identifier("g")

\* the deepest shared reference to i32 a declaration is given
RECURSIVE RefTo(_)
RefTo(n) == IF n = 1 THEN I32 ELSE <<"Ref">> \o RefTo(n - 1)

\* the declarations let statements make: [is_mut, name, type]
LetDecls ==
    { Param(TRUE, "x", I32), Param(FALSE, "x", I32), Param(FALSE, "x", Bool),
      Param(TRUE, "x", <<"MutRef", "I32">>),
      Param(TRUE, "x", <<"Ref", "Ref", "I32">>),
      Param(TRUE, "y", I32), Param(FALSE, "y", <<"MutRef", "I32">>),
      Param(FALSE, "y", RefTo(MaxTypeDepth)) }

\* the expressions statements are built from
Exprs ==
    { IntLiteral, BoolLiteral, StringLiteral, X, Y, F,
      BorrowExpr(FALSE, X), BorrowExpr(TRUE, X),
      BorrowExpr(FALSE, Y), BorrowExpr(TRUE, Y),
      BorrowExpr(TRUE, IntLiteral),
      BorrowExpr(FALSE, BorrowExpr(FALSE, X)),
      BorrowExpr(TRUE, BorrowExpr(TRUE, X)),
      BorrowExpr(FALSE, BorrowExpr(FALSE, BorrowExpr(FALSE, X))),
      BinaryExpr("Assignment", X, IntLiteral),
      BinaryExpr("Assignment", X, BoolLiteral),
      BinaryExpr("Assignment", X, Y),
      BinaryExpr("Assignment", Y, BorrowExpr(TRUE, X)),
      BinaryExpr("Assignment", X, F),
      BinaryExpr("Add", X, Y), BinaryExpr("Sub", X, IntLiteral),
      BinaryExpr("Eq", X, Y), BinaryExpr("And", BoolLiteral, X),
      UnaryExpr("Neg", X), UnaryExpr("Not", X),
      CallExpr(F, <<>>), CallExpr(F, <<X>>), CallExpr(F, <<X, Y>>),
      CallExpr(F, <<BorrowExpr(TRUE, X)>>), CallExpr(F, <<IntLiteral, IntLiteral>>),
      CallExpr(G, <<>>), CallExpr(G, <<X>>), CallExpr(G, <<BorrowExpr(FALSE, X)>>),
      CallExpr(G, <<F>>), CallExpr(X, <<>>) }

\* the initializers of let statements
LetInits ==
    { IntLiteral, BoolLiteral, X, Y, F,
      BorrowExpr(FALSE, X), BorrowExpr(TRUE, X), BorrowExpr(TRUE, Y),
      BorrowExpr(FALSE, BorrowExpr(FALSE, X)),
      CallExpr(F, <<>>), CallExpr(G, <<>>),
      CallExpr(G, <<BorrowExpr(FALSE, X)>>) }

\* the last statement of a body whose walk stopped early, when an ExprStmt
TrailExprs ==
    { IntLiteral, BoolLiteral, X, Y, BorrowExpr(TRUE, X),
      BinaryExpr("Assignment", X, IntLiteral), CallExpr(G, <<>>) }

\* the conditions of if and while statements
CondExprs == {BoolLiteral, X, BinaryExpr("Lt", X, Y), F}

\* ------------------------------------------------------------ check_program
\* FunctionTable::FunctionTable
EmptyFunctionTable == [functions |-> <<>>, name_to_index |-> <<>>]

\* Compiler::Compiler, and nothing recorded of a run yet
CompilerConstructed ==
    /\ instructions = <<>>
    /\ string_constants = <<>>
    /\ local_vars = <<>>
    /\ next_local_index = 0
    /\ function_table = EmptyFunctionTable
    /\ thrown = ""
    /\ accepted = TRUE
    /\ slots = <<>>
    /\ jumps = <<>>
    /\ ranges = <<>>

Init ==
    /\ program \in Programs
    /\ scopes = <<>>
    /\ errors = <<>>
    /\ fi = 1
    /\ pc = "loop"
    /\ ctl = <<>>
    /\ success = TRUE
    /\ result = "none"
    /\ untyped = FALSE
    /\ nstmts = 0
    /\ nblocks = 0
    /\ trailing = <<>>
    /\ asg = <<>>
    /\ CompilerConstructed
    /\ NoParser

\* An event leaves an expression node without a type although its check (or
\* the check of the assignment it is the target of) succeeded.
LeavesUntyped(ev) ==
    \E i \in 1..Len(ev) :
        /\ ev[i].ok
        /\ \/ ev[i].ty = NullType
           \/ (ev[i].e.k = "binary" /\ ev[i].e.a = "Assignment")

\* the outcomes of a step: the one in which nothing undefined happens or,
\* when the step runs into undefined behaviour, one per UBOutcomes
Outcomes(Step(_)) ==
    IF Step("true").ub THEN {Step(ub) : ub \in UBOutcomes} ELSE {Step("true")}

\* parameter i of func onwards is declared into the function's scope
RECURSIVE DeclareParams(_, _, _)
DeclareParams(params, i, sc) ==
    IF i > Len(params) THEN [ok |-> TRUE, sc |-> sc, name |-> ""]
    ELSE LET d == declare_variable(sc, params[i].name,
                                   ShallowCopy(params[i].type),
                                   params[i].is_mut, params[i].type)
         IN  IF ~d.ok THEN [ok |-> FALSE, sc |-> sc, name |-> params[i].name]
             ELSE DeclareParams(params, i + 1, d.sc)

\* check_program's loop calls check_function, which enters the function
\* scope, declares the parameters and descends into the body block
BeginFunction ==
    /\ pc = "loop"
    /\ fi <= Len(program)
    /\ LET d == DeclareParams(program[fi].params, 1, enter_scope(scopes))
       IN  /\ scopes' = IF d.ok THEN enter_scope(d.sc) ELSE d.sc
           /\ IF d.ok
              THEN /\ pc' = "stmts"
                   /\ ctl' = <<BlockFrame>>
                   /\ UNCHANGED <<errors, result>>
              ELSE /\ pc' = "done"
                   /\ ctl' = <<>>
                   /\ errors' = Append(errors, <<"Duplicate parameter name", d.name>>)
                   /\ result' = FALSE
    /\ success' = TRUE
    /\ trailing' = <<>>
    /\ UNCHANGED <<program, fi, untyped, nstmts, nblocks, asg>>
    /\ UNCHANGED <<cvars, pvars, mvars>>

\* the common end of a let statement or of a condition that failed
Finish(r) ==
    IF r.crash
    THEN /\ pc' = "crashed"
         /\ UNCHANGED <<scopes, errors, ctl, success, untyped, trailing>>
    ELSE LET u == Return(ctl, r.sc, r.ok)
         IN  /\ pc' = u.pc
             /\ scopes' = u.sc
             /\ ctl' = u.ctl
             /\ success' = u.success
             /\ errors' = errors \o r.errs
             /\ untyped' = (untyped \/ LeavesUntyped(r.ev))
             /\ UNCHANGED trailing

CheckLet(is_mut, name, type, init) ==
    /\ pc \in {"stmts", "more"}
    /\ nstmts < MaxStmts
    /\ LET Step(ub) == LetStep(is_mut, name, type, init, scopes, ub)
       IN  \E r \in Outcomes(Step) : Finish(r)
    /\ nstmts' = nstmts + 1
    /\ UNCHANGED <<program, fi, result, nblocks, asg>>
    /\ UNCHANGED <<cvars, pvars, mvars>>

\* An ExprStmt.  is_last: it is the last statement of the function body, so
\* that the body block's loop ends with it; a statement of the body that is
\* not the last is followed by another one (pc "more").
CheckExprStmt(e, is_last) ==
    /\ pc \in {"stmts", "more"}
    /\ nstmts < MaxStmts
    /\ is_last => Len(ctl) = 1
    /\ LET Step(ub) == ExprStep(e, scopes, ub)
       IN  \E r \in Outcomes(Step) :
             IF r.crash
             THEN /\ pc' = "crashed"
                  /\ UNCHANGED <<scopes, errors, ctl, success, untyped, trailing>>
             ELSE LET u == IF r.ok /\ is_last
                           THEN Return(Pop(ctl), exit_scope(r.sc), TRUE)
                           ELSE Return(ctl, r.sc, r.ok)
                  IN  /\ pc' = IF r.ok /\ ~is_last /\ Len(ctl) = 1
                               THEN "more" ELSE u.pc
                      /\ scopes' = u.sc
                      /\ ctl' = u.ctl
                      /\ success' = u.success
                      /\ errors' = errors \o r.errs
                      /\ untyped' = (untyped \/ LeavesUntyped(r.ev))
                      /\ trailing' = IF is_last
                                     THEN <<[e |-> e, ok |-> r.ok, ty |-> r.ty,
                                             ev |-> r.ev]>>
                                     ELSE trailing
    /\ nstmts' = nstmts + 1
    /\ UNCHANGED <<program, fi, result, nblocks, asg>>
    /\ UNCHANGED <<cvars, pvars, mvars>>

\* an IfStmt or WhileStmt: the condition and, when it is accepted, the
\* descent into the new scope and the block of the then branch or loop body
BeginCompound(cond, msg, frame) ==
    /\ pc \in {"stmts", "more", "else"}
    /\ nblocks < MaxBlocks
    /\ Len(ctl) + 2 <= MaxNest + 1
    /\ LET Step(ub) == CondStep(cond, msg, scopes, ub)
       IN  \E r \in Outcomes(Step) :
             IF r.ok
             THEN /\ pc' = "stmts"
                  /\ scopes' = enter_scope(enter_scope(r.sc))
                  /\ ctl' = ctl \o <<frame, BlockFrame>>
                  /\ untyped' = (untyped \/ LeavesUntyped(r.ev))
                  /\ UNCHANGED <<errors, success, trailing>>
             ELSE Finish(r)
    /\ nblocks' = nblocks + 1
    /\ UNCHANGED <<program, fi, result, nstmts, asg>>
    /\ UNCHANGED <<cvars, pvars, mvars>>

BeginIf(cond, has_else) ==
    BeginCompound(cond, "If condition must be boolean", IfFrame(has_else))

BeginWhile(cond) ==
    /\ pc # "else"
    /\ BeginCompound(cond, "While condition must be boolean", WhileFrame)

\* a BlockStmt as a statement of a block or as an else branch
BeginBlock ==
    /\ pc \in {"stmts", "more", "else"}
    /\ pc # "else" => nblocks < MaxBlocks
    /\ Len(ctl) + 1 <= MaxNest + 1
    /\ pc' = "stmts"
    /\ scopes' = enter_scope(scopes)
    /\ ctl' = Append(ctl, BlockFrame)
    /\ nblocks' = IF pc # "else" THEN nblocks + 1 ELSE nblocks
    /\ UNCHANGED <<program, errors, fi, success, result, untyped, nstmts,
                   trailing, asg>>
    /\ UNCHANGED <<cvars, pvars, mvars>>

\* the statement loop of a BlockStmt is over
EndBlock ==
    /\ pc = "stmts"
    /\ LET u == Return(Pop(ctl), exit_scope(scopes), TRUE)
       IN  /\ pc' = u.pc
           /\ scopes' = u.sc
           /\ ctl' = u.ctl
           /\ success' = u.success
    /\ UNCHANGED <<program, errors, fi, result, untyped, nstmts, nblocks, trailing, asg>>
    /\ UNCHANGED <<cvars, pvars, mvars>>

\* check_function's return check, exit_scope and return to check_program,
\* which returns false when the function failed.  t is the body's last
\* statement when an ExprStmt: the one checked as such or, when the walk of
\* the body stopped before its last statement, any.
ReturnCheck(t) ==
    /\ pc = "ret"
    /\ t \in IF trailing # <<>> THEN {<<trailing[1].e>>}
              ELSE IF success THEN {<<>>}
              ELSE {<<>>} \cup {<<e>> : e \in TrailExprs}
    /\ LET Step(ub) == ReturnStep(t, program[fi].ret, success, scopes, ub)
       IN  \E r \in Outcomes(Step) :
             IF r.crash
             THEN /\ pc' = "crashed"
                  /\ UNCHANGED <<scopes, errors, fi, success, result, untyped>>
             ELSE /\ scopes' = exit_scope(r.sc)
                  /\ errors' = errors \o r.errs
                  /\ success' = r.ok
                  /\ untyped' = (untyped \/ LeavesUntyped(r.ev))
                  /\ IF r.ok
                     THEN pc' = "loop" /\ fi' = fi + 1 /\ UNCHANGED result
                     ELSE pc' = "done" /\ result' = FALSE /\ UNCHANGED fi
    /\ UNCHANGED <<program, ctl, nstmts, nblocks, trailing, asg>>
    /\ UNCHANGED <<cvars, pvars, mvars>>

\* check_program's loop is over
FinishProgram ==
    /\ pc = "loop"
    /\ fi > Len(program)
    /\ pc' = "done"
    /\ result' = (errors = <<>>)
    /\ UNCHANGED <<program, scopes, errors, fi, ctl, success, untyped, nstmts,
                   nblocks, trailing, asg>>
    /\ UNCHANGED <<cvars, pvars, mvars>>

Next ==
    \/ BeginFunction
    \/ \E d \in LetDecls, init \in LetInits :
          CheckLet(d.is_mut, d.name, d.type, init)
    \/ \E e \in Exprs, is_last \in BOOLEAN : CheckExprStmt(e, is_last)
    \/ \E cond \in CondExprs, has_else \in BOOLEAN : BeginIf(cond, has_else)
    \/ \E cond \in CondExprs : BeginWhile(cond)
    \/ BeginBlock
    \/ EndBlock
    \/ \E t \in {<<>>} \cup {<<e>> : e \in Exprs \cup TrailExprs} : ReturnCheck(t)
    \/ FinishProgram

Spec == Init /\ [][Next]_vars

\* ------------------------------------------- is_assignable as a function
\* every non-null type value of the depth bound, also those with a null base
TypeValues == Chains(MaxTypeDepth) \ {NullType}

InitAssignable ==
    /\ asg \in [target : TypeValues, source : TypeValues, res : {"none"}]
    /\ program = <<>>
    /\ scopes = <<>>
    /\ errors = <<>>
    /\ fi = 1
    /\ pc = "is_assignable"
    /\ ctl = <<>>
    /\ success = TRUE
    /\ result = "none"
    /\ untyped = FALSE
    /\ nstmts = 0
    /\ nblocks = 0
    /\ trailing = <<>>
    /\ CompilerConstructed
    /\ NoParser

CallIsAssignable ==
    /\ asg.res = "none"
    /\ asg' = [asg EXCEPT !.res = is_assignable(asg.target, asg.source)]
    /\ UNCHANGED <<program, scopes, errors, fi, pc, ctl, success, result,
                   untyped, nstmts, nblocks, trailing>>
    /\ UNCHANGED <<cvars, pvars, mvars>>

NextAssignable == CallIsAssignable

SpecAssignable == InitAssignable /\ [][NextAssignable]_vars

\* ---------------------------------------------------------------- compiler
\* Instruction{opcode, operand}; instruction index i of the code is element
\* i + 1 of the sequence
Instruction(opcode, operand) == [opcode |-> opcode, operand |-> operand]

\* the opcode compile_expression emits for a binary operator
BinaryOpcode(op) ==
    CASE op = "Add" -> "ADD_I32" [] op = "Sub" -> "SUB_I32"
      [] op = "Mul" -> "MUL_I32" [] op = "Div" -> "DIV_I32"
      [] op = "Eq" -> "EQ_I32"   [] op = "Ne" -> "NE_I32"
      [] op = "Lt" -> "LT_I32"   [] op = "Gt" -> "GT_I32"
      [] op = "Le" -> "LE_I32"   [] op = "Ge" -> "GE_I32"
      [] op = "And" -> "AND"     [] op = "Or" -> "OR"

\* What compile_expression has done when it returns or throws: the
\* instructions emitted, the string constants added, and what() of the
\* exception ("" when it returned).
Lowered(code, consts, what) == [code |-> code, consts |-> consts, thrown |-> what]

\* FunctionTable::get_function_index: [found, index]
get_function_index(ft, name) ==
    IF name \in DOMAIN ft.name_to_index
    THEN [found |-> TRUE, index |-> ft.name_to_index[name]]
    ELSE [found |-> FALSE, index |-> 0]

RECURSIVE compile_expression(_, _, _, _)
\* the loop of compile_call taking the arguments first to last
RECURSIVE compile_args_forward(_, _, _, _, _)
compile_args_forward(e, i, lv, ft, nc) ==
    IF i = 0 THEN Lowered(<<>>, <<>>, "")
    ELSE LET a == compile_expression(e.sub[Len(e.sub) - i + 1], lv, ft, nc)
         IN  IF a.thrown # "" THEN a
             ELSE LET rest == compile_args_forward(e, i - 1, lv, ft,
                                                   nc + Len(a.consts))
                  IN  Lowered(a.code \o rest.code, a.consts \o rest.consts,
                              rest.thrown)

\* the loop of compile_call over the arguments, last argument first: argument
\* i (element i + 1 of sub) downwards
RECURSIVE compile_args(_, _, _, _, _)
compile_args(e, i, lv, ft, nc) ==
    IF i = 0 THEN Lowered(<<>>, <<>>, "")
    ELSE LET a == compile_expression(e.sub[i + 1], lv, ft, nc)
         IN  IF a.thrown # "" THEN a
             ELSE LET rest == compile_args(e, i - 1, lv, ft, nc + Len(a.consts))
                  IN  Lowered(a.code \o rest.code, a.consts \o rest.consts,
                              rest.thrown)

\* compile_expression, compile_identifier, compile_call and compile_borrow
\* with local_vars lv, function table ft and nc string constants so far.
\* The operand of PUSH_I32 and PUSH_BOOL is the literal's value, which
\* expressions do not carry here.
compile_expression(e, lv, ft, nc) ==
    CASE e.k = "binary" /\ e.a = "Assignment" ->
            LET r == compile_expression(e.sub[2], lv, ft, nc)
                target == e.sub[1]
            IN  IF r.thrown # "" THEN r
                ELSE IF target.k # "ident"
                THEN Lowered(r.code, r.consts,
                             "Assignment target must be an identifier")
                ELSE IF target.a \notin DOMAIN lv
                THEN Lowered(r.code, r.consts, "Undefined variable")
                ELSE Lowered(r.code \o <<Instruction("STORE", lv[target.a]),
                                         Instruction("LOAD", lv[target.a])>>,
                             r.consts, "")
      [] e.k = "binary" /\ e.a # "Assignment" ->
            LET l == compile_expression(e.sub[1], lv, ft, nc)
            IN  IF l.thrown # "" THEN l
                ELSE LET r == compile_expression(e.sub[2], lv, ft,
                                                 nc + Len(l.consts))
                     IN  IF r.thrown # ""
                         THEN Lowered(l.code \o r.code, l.consts \o r.consts,
                                      r.thrown)
                         ELSE Lowered(l.code \o r.code
                                        \o <<Instruction(BinaryOpcode(e.a), 0)>>,
                                      l.consts \o r.consts, "")
      [] e.k = "unary" ->
            LET r == compile_expression(e.sub[1], lv, ft, nc)
            IN  IF r.thrown # "" THEN r
                ELSE Lowered(Append(r.code,
                                Instruction(IF e.a = "Neg" THEN "NEG_I32"
                                            ELSE "NOT", 0)),
                             r.consts, "")
      [] e.k = "int" -> Lowered(<<Instruction("PUSH_I32", 0)>>, <<>>, "")
      [] e.k = "bool" -> Lowered(<<Instruction("PUSH_BOOL", 0)>>, <<>>, "")
      [] e.k = "str" -> Lowered(<<Instruction("PUSH_STR", nc)>>, <<"">>, "")
      [] e.k = "ident" ->
            IF e.a \in DOMAIN lv
            THEN Lowered(<<Instruction("LOAD", lv[e.a])>>, <<>>, "")
            ELSE Lowered(<<>>, <<>>, "Undefined variable")
      [] e.k = "call" ->
            LET args == compile_args(e, Len(e.sub) - 1, lv, ft, nc)
                callee == e.sub[1]
                f == get_function_index(ft, callee.a)
            IN  IF args.thrown # "" THEN args
                ELSE IF callee.k # "ident"
                THEN Lowered(args.code, args.consts,
                             "Function callee must be an identifier")
                ELSE IF ~f.found
                THEN Lowered(args.code, args.consts, "Function not found")
                ELSE Lowered(Append(args.code, Instruction("CALL", f.index)),
                             args.consts, "")
      [] e.k = "borrow" ->
            LET r == compile_expression(e.sub[1], lv, ft, nc)
            IN  IF r.thrown # "" THEN r
                ELSE Lowered(Append(r.code,
                                Instruction(IF e.a = "mut" THEN "BORROW_MUT"
                                            ELSE "BORROW", 0)),
                             r.consts, "")

\* FunctionTable::add_function for the items from i on (the first pass of
\* compile): one entry per function, name_to_index set to the entry's index
RECURSIVE add_functions(_, _, _)
add_functions(items, i, ft) ==
    IF i > Len(items) THEN ft
    ELSE LET func == items[i]
             info == [entry_point |-> 0,
                      num_params |-> Len(func.params),
                      num_locals |-> 0,
                      return_type |-> Clone(func.ret),
                      param_types |-> [j \in DOMAIN func.params |->
                                          Clone(func.params[j].type)],
                      name |-> func.name]
             index == Len(ft.functions)
         IN  add_functions(items, i + 1,
                 [functions |-> Append(ft.functions, info),
                  name_to_index |->
                      [n \in DOMAIN ft.name_to_index \cup {func.name} |->
                          IF n = func.name THEN index
                          ELSE ft.name_to_index[n]]])

\* local_vars[name] = index
SetLocal(lv, name, index) ==
    [n \in DOMAIN lv \cup {name} |-> IF n = name THEN index ELSE lv[n]]

\* the loop of compile_function over the parameters from i on: [lv, next]
RECURSIVE AddParams(_, _, _, _)
AddParams(params, i, lv, next) ==
    IF i > Len(params) THEN [lv |-> lv, next |-> next]
    ELSE AddParams(params, i + 1, SetLocal(lv, params[i].name, next), next + 1)

\* a patch that stores the distance from the jump instead of the target
Patch_Relative(ins, index, target) ==
    [ins EXCEPT ![index + 1].operand = target - index]

\* instructions[index].operand = target
Patch(ins, index, target) == [ins EXCEPT ![index + 1].operand = target]

\* A frame of ctl while compiling: the statement compile_statement is inside
\* of, with the instruction indices its lowering holds on to.  start: the
\* entry point (function body) or loop_start (while); jin: else_jump or
\* exit_jump; jend: end_jump; mark: the instruction count when the then
\* branch had been lowered.
CFrame(kind, has_else, start, jin, jend, mark) ==
    [kind |-> kind, has_else |-> has_else, start |-> start, jin |-> jin,
     jend |-> jend, mark |-> mark]

CBlock == CFrame("block", FALSE, 0, 0, 0, 0)

\* what is recorded of a lowered if or while of function fn: where its
\* JMP_IF_NOT is, and the instruction count when the condition started
\* (start), when the then branch or loop body had been lowered (mark) and
\* when the else branch had been (last)
Jump(kind, fn, has_else, start, jin, mark, last) ==
    [kind |-> kind, fn |-> fn, has_else |-> has_else, start |-> start,
     jin |-> jin, mark |-> mark, last |-> last]

\* compile_while with the exit jump patched before the backward JMP is emitted
RECURSIVE CReturn_ExitBeforeJump(_, _, _, _, _)
CReturn_ExitBeforeJump(c, sc, ins, js, fn) ==
    LET top == c[Len(c)]
    IN  CASE top.kind = "block" ->
               [ctl |-> c, sc |-> sc, pc |-> "cstmts", ins |-> ins, js |-> js]
          [] top.kind = "then" /\ top.has_else ->
               LET jend == Len(ins)
                   ins1 == Append(ins, Instruction("JMP", 0))
               IN  [ctl |-> [c EXCEPT ![Len(c)] =
                               CFrame("else", TRUE, top.start, top.jin, jend,
                                      Len(ins))],
                    sc |-> enter_scope(exit_scope(sc)),
                    pc |-> "celse",
                    ins |-> Patch(ins1, top.jin, Len(ins1)),
                    js |-> js]
          [] top.kind = "then" /\ ~top.has_else ->
               CReturn_ExitBeforeJump(Pop(c), exit_scope(sc),
                       Patch(ins, top.jin, Len(ins)),
                       Append(js, Jump("if", fn, FALSE, top.start, top.jin,
                                       Len(ins), Len(ins))),
                       fn)
          [] top.kind = "else" ->
               CReturn_ExitBeforeJump(Pop(c), exit_scope(sc),
                       Patch(ins, top.jend, Len(ins)),
                       Append(js, Jump("if", fn, TRUE, top.start, top.jin,
                                       top.mark, Len(ins))),
                       fn)
          [] top.kind = "while" ->
               LET ins1 == Append(ins, Instruction("JMP", top.start))
               IN  CReturn_ExitBeforeJump(Pop(c), exit_scope(sc),
                           Patch(ins1, top.jin, Len(ins)),
                           Append(js, Jump("while", fn, FALSE, top.start,
                                           top.jin, Len(ins), Len(ins))),
                           fn)

\* A statement nested directly in the innermost frame of c has been lowered:
\* the rest of compile_if, compile_while and compile_block up to the point
\* where the next statement is lowered (pc "cstmts") or the else branch is
\* (pc "celse"); sc is the type checker's scope stack, which leaves the same
\* statements.
RECURSIVE CReturn(_, _, _, _, _)
CReturn(c, sc, ins, js, fn) ==
    LET top == c[Len(c)]
    IN  CASE top.kind = "block" ->
               [ctl |-> c, sc |-> sc, pc |-> "cstmts", ins |-> ins, js |-> js]
          [] top.kind = "then" /\ top.has_else ->
               LET jend == Len(ins)
                   ins1 == Append(ins, Instruction("JMP", 0))
               IN  [ctl |-> [c EXCEPT ![Len(c)] =
                               CFrame("else", TRUE, top.start, top.jin, jend,
                                      Len(ins))],
                    sc |-> enter_scope(exit_scope(sc)),
                    pc |-> "celse",
                    ins |-> Patch(ins1, top.jin, Len(ins1)),
                    js |-> js]
          [] top.kind = "then" /\ ~top.has_else ->
               CReturn(Pop(c), exit_scope(sc),
                       Patch(ins, top.jin, Len(ins)),
                       Append(js, Jump("if", fn, FALSE, top.start, top.jin,
                                       Len(ins), Len(ins))),
                       fn)
          [] top.kind = "else" ->
               CReturn(Pop(c), exit_scope(sc),
                       Patch(ins, top.jend, Len(ins)),
                       Append(js, Jump("if", fn, TRUE, top.start, top.jin,
                                       top.mark, Len(ins))),
                       fn)
          [] top.kind = "while" ->
               LET ins1 == Append(ins, Instruction("JMP", top.start))
               IN  CReturn(Pop(c), exit_scope(sc),
                           Patch(ins1, top.jin, Len(ins1)),
                           Append(js, Jump("while", fn, FALSE, top.start,
                                           top.jin, Len(ins), Len(ins))),
                           fn)

\* the programs compiled: functions of distinct names, one calling the other
\* before its declaration, and functions declared under one name
CPrograms ==
    { <<FunctionDecl("f", <<Param(TRUE, "x", I32)>>, I32),
        FunctionDecl("g", <<Param(FALSE, "x", I32), Param(FALSE, "y", I32)>>, I32)>>,
      <<FunctionDecl("f", <<Param(TRUE, "x", I32)>>, I32),
        FunctionDecl("f", <<>>, I32)>> }

\* the let statements compiled: [is_mut, name, type, init]
CLets ==
    { [is_mut |-> FALSE, name |-> "x", type |-> Bool, init |-> BoolLiteral],
      [is_mut |-> TRUE, name |-> "z", type |-> I32, init |-> CallExpr(F, <<X>>)] }

\* the expressions of the expression statements compiled
CExprs ==
    { StringLiteral, X, Identifier("z"), F,
      BinaryExpr("Assignment", X, IntLiteral),
      CallExpr(G, <<CallExpr(F, <<IntLiteral>>), X>>) }

\* the conditions of the if and while statements compiled
CConds == {BinaryExpr("Lt", X, IntLiteral)}

\* Compiler::compile is called on a parsed program
InitCompile ==
    /\ program \in CPrograms
    /\ scopes = <<>>
    /\ errors = <<>>
    /\ fi = 1
    /\ pc = "compile"
    /\ ctl = <<>>
    /\ success = TRUE
    /\ result = "none"
    /\ untyped = FALSE
    /\ nstmts = 0
    /\ nblocks = 0
    /\ trailing = <<>>
    /\ asg = <<>>
    /\ CompilerConstructed
    /\ NoParser

\* the variables of the parser and the type checker that the compiler's run
\* leaves alone
CheckerIdle ==
    UNCHANGED <<program, errors, success, untyped, asg, pvars, mvars>>

\* The compiler's state becomes the given one, unless compile has thrown
\* before: then there is no compiler state any more and only the type
\* checker's verdict on the rest of the program is followed.
CompileTo(ins, consts, lv, next, ft, sl, js, rg, what) ==
    IF thrown # ""
    THEN UNCHANGED <<instructions, string_constants, local_vars,
                     next_local_index, function_table, thrown, slots, jumps,
                     ranges>>
    ELSE /\ instructions' = ins
         /\ string_constants' = consts
         /\ local_vars' = lv
         /\ next_local_index' = next
         /\ function_table' = ft
         /\ slots' = sl
         /\ jumps' = js
         /\ ranges' = rg
         /\ thrown' = what

\* the reset and the first pass of compile
compile ==
    /\ pc = "compile"
    /\ CompileTo(<<>>, <<>>, <<>>, 0,
                 add_functions(program, 1, EmptyFunctionTable),
                 slots, jumps, ranges, "")
    /\ pc' = "functions"
    /\ UNCHANGED <<scopes, fi, ctl, result, nstmts, nblocks, trailing, accepted>>
    /\ CheckerIdle

\* compile_function up to the body's first statement; the type checker's
\* check_function declares the parameters
compile_function ==
    /\ pc = "functions"
    /\ fi <= Len(program)
    /\ LET p == AddParams(program[fi].params, 1, <<>>, 0)
           d == DeclareParams(program[fi].params, 1, enter_scope(<<>>))
       IN  /\ CompileTo(instructions, string_constants, p.lv, p.next,
                        function_table, slots, jumps, ranges, "")
           /\ accepted' = (accepted /\ d.ok)
           /\ scopes' = enter_scope(d.sc)
    /\ ctl' = <<CFrame("block", FALSE, Len(instructions), 0, 0, 0)>>
    /\ pc' = "cstmts"
    /\ trailing' = <<>>
    /\ UNCHANGED <<fi, result, nstmts, nblocks>>
    /\ CheckerIdle

\* the body's last statement so far, after a statement that is not an
\* ExprStmt has been lowered
NoTrailing == IF Len(ctl) = 1 THEN <<>> ELSE trailing

compile_let(is_mut, name, type, init) ==
    /\ pc = "cstmts"
    /\ nstmts < MaxStmts
    /\ LET c == compile_expression(init, local_vars, function_table,
                                   Len(string_constants))
           fresh == name \notin DOMAIN local_vars
           lv == IF fresh THEN SetLocal(local_vars, name, next_local_index)
                 ELSE local_vars
           ins == instructions \o c.code
       IN  IF c.thrown # ""
           THEN CompileTo(ins, string_constants \o c.consts, local_vars,
                          next_local_index, function_table, slots, jumps,
                          ranges, c.thrown)
           ELSE CompileTo(Append(ins, Instruction("STORE", lv[name])),
                          string_constants \o c.consts, lv,
                          IF fresh THEN next_local_index + 1
                          ELSE next_local_index,
                          function_table,
                          Append(slots, [fn |-> fi, name |-> name,
                                         index |-> lv[name]]),
                          jumps, ranges, "")
    /\ IF accepted
       THEN LET r == LetStep(is_mut, name, type, init, scopes, "true")
            IN  /\ accepted' = (r.ok /\ ~r.ub)
                /\ scopes' = r.sc
       ELSE UNCHANGED <<accepted, scopes>>
    /\ trailing' = NoTrailing
    /\ nstmts' = nstmts + 1
    /\ UNCHANGED <<fi, pc, ctl, result, nblocks>>
    /\ CheckerIdle

\* compile_statement on an ExprStmt
compile_expr_stmt(e) ==
    /\ pc = "cstmts"
    /\ nstmts < MaxStmts
    /\ LET c == compile_expression(e, local_vars, function_table,
                                   Len(string_constants))
           ins == instructions \o c.code
       IN  CompileTo(IF c.thrown # "" THEN ins
                     ELSE Append(ins, Instruction("POP", 0)),
                     string_constants \o c.consts, local_vars,
                     next_local_index, function_table, slots, jumps, ranges,
                     c.thrown)
    /\ IF accepted
       THEN LET r == ExprStep(e, scopes, "true")
            IN  /\ accepted' = (r.ok /\ ~r.ub)
                /\ scopes' = r.sc
       ELSE UNCHANGED <<accepted, scopes>>
    /\ trailing' = IF Len(ctl) = 1
                   THEN <<[e |-> e, ok |-> accepted', ty |-> NullType,
                           ev |-> <<>>]>>
                   ELSE trailing
    /\ nstmts' = nstmts + 1
    /\ UNCHANGED <<fi, pc, ctl, result, nblocks>>
    /\ CheckerIdle

\* compile_if and compile_while up to the first statement of the then branch
\* or loop body, a block
compile_compound(cond, msg, kind, has_else) ==
    /\ nblocks < MaxCompound
    /\ LET c == compile_expression(cond, local_vars, function_table,
                                   Len(string_constants))
           ins == instructions \o c.code
           jin == Len(ins)
       IN  /\ CompileTo(IF c.thrown # "" THEN ins
                        ELSE Append(ins, Instruction("JMP_IF_NOT", 0)),
                        string_constants \o c.consts, local_vars,
                        next_local_index, function_table, slots, jumps,
                        ranges, c.thrown)
           /\ ctl' = ctl \o <<CFrame(kind, has_else, Len(instructions), jin,
                                     0, 0),
                              CBlock>>
    /\ IF accepted
       THEN LET r == CondStep(cond, msg, scopes, "true")
            IN  /\ accepted' = (r.ok /\ ~r.ub)
                /\ scopes' = enter_scope(enter_scope(r.sc))
       ELSE /\ UNCHANGED accepted
            /\ scopes' = enter_scope(enter_scope(scopes))
    /\ pc' = "cstmts"
    /\ trailing' = NoTrailing
    /\ nblocks' = nblocks + 1
    /\ UNCHANGED <<fi, result, nstmts>>
    /\ CheckerIdle

compile_if(cond, has_else) ==
    /\ pc \in {"cstmts", "celse"}
    /\ compile_compound(cond, "If condition must be boolean", "then", has_else)

compile_while(cond) ==
    /\ pc = "cstmts"
    /\ compile_compound(cond, "While condition must be boolean", "while", FALSE)

\* compile_block on a block that is a statement of a block or an else branch
compile_block ==
    /\ pc \in {"cstmts", "celse"}
    /\ pc = "cstmts" => nblocks < MaxCompound
    /\ pc' = "cstmts"
    /\ ctl' = Append(ctl, CBlock)
    /\ scopes' = enter_scope(scopes)
    /\ trailing' = NoTrailing
    /\ nblocks' = IF pc = "cstmts" THEN nblocks + 1 ELSE nblocks
    /\ UNCHANGED <<fi, result, nstmts, accepted, cvars>>
    /\ CheckerIdle

\* the statement loop of a nested block is over
compile_block_end ==
    /\ pc = "cstmts"
    /\ Len(ctl) > 1
    /\ LET u == CReturn(Pop(ctl), exit_scope(scopes), instructions, jumps, fi)
       IN  /\ CompileTo(u.ins, string_constants, local_vars, next_local_index,
                        function_table, slots, u.js, ranges, "")
           /\ pc' = u.pc
           /\ ctl' = u.ctl
           /\ scopes' = u.sc
    /\ UNCHANGED <<fi, result, nstmts, nblocks, trailing, accepted>>
    /\ CheckerIdle

\* the function-table entry that get_function(get_function_index(name)) is
SetEntry(ft, name, field, value) ==
    LET f == get_function_index(ft, name)
    IN  [ft EXCEPT !.functions[f.index + 1][field] = value]

\* The body's statement loop is over: the rest of compile_function and of
\* the loop body of compile's second pass.  The type checker's check_function
\* makes its return check in the function scope.
compile_function_end ==
    /\ pc = "cstmts"
    /\ Len(ctl) = 1
    /\ LET ins == IF instructions = <<>>
                     \/ instructions[Len(instructions)].opcode # "RET_VAL"
                  THEN Append(instructions, Instruction("RET", 0))
                  ELSE instructions
           name == program[fi].name
           ft == SetEntry(SetEntry(function_table, name, "num_locals",
                                   next_local_index),
                          name, "entry_point", ctl[1].start)
       IN  CompileTo(ins, string_constants, local_vars, next_local_index, ft,
                     slots, jumps,
                     Append(ranges, [entry |-> ctl[1].start, end |-> Len(ins),
                                     locals |-> next_local_index]),
                     "")
    /\ IF accepted
       THEN LET t == IF trailing = <<>> THEN <<>> ELSE <<trailing[1].e>>
                r == ReturnStep(t, program[fi].ret, TRUE, exit_scope(scopes),
                                "true")
            IN  accepted' = (r.ok /\ ~r.ub)
       ELSE UNCHANGED accepted
    /\ scopes' = <<>>
    /\ ctl' = <<>>
    /\ pc' = "functions"
    /\ fi' = fi + 1
    /\ UNCHANGED <<result, nstmts, nblocks, trailing>>
    /\ CheckerIdle

\* compile returns the instructions; check_program had returned `accepted`
compile_return ==
    /\ pc = "functions"
    /\ fi > Len(program)
    /\ pc' = "compiled"
    /\ result' = accepted
    /\ UNCHANGED <<scopes, fi, ctl, nstmts, nblocks, trailing, accepted, cvars>>
    /\ CheckerIdle

NextCompile ==
    \/ compile
    \/ compile_function
    \/ \E l \in CLets : compile_let(l.is_mut, l.name, l.type, l.init)
    \/ \E e \in CExprs : compile_expr_stmt(e)
    \/ \E cond \in CConds, has_else \in BOOLEAN : compile_if(cond, has_else)
    \/ \E cond \in CConds : compile_while(cond)
    \/ compile_block
    \/ compile_block_end
    \/ compile_function_end
    \/ compile_return

SpecCompile == InitCompile /\ [][NextCompile]_vars

\* ------------------------------------------------------------- the parser
\* The source text is the sequence of its characters, pos counts from 0; an
\* identifier's name is the sequence of its characters.

\* no expression: what the caller has when parse threw
NoExpr == [k |-> "none", a |-> "", sub |-> <<>>]

\* a parse function returned expr and left the parser at pos
Parsed(expr, pos) == [expr |-> expr, pos |-> pos, err |-> "", raw |-> FALSE]

\* error(message) called at pos: std::runtime_error with the text
\* "Parse error at position <pos>: <message>"
error(message, pos) ==
    [expr |-> NoExpr, pos |-> pos, err |-> message, raw |-> FALSE]

\* an exception thrown without error(): what() is the message, with no
\* position
Thrown(message, pos) ==
    [expr |-> NoExpr, pos |-> pos, err |-> message, raw |-> TRUE]

Digits == {"0", "1", "2", "3", "4", "5", "6", "7", "8", "9"}

Alphas == {"a", "b", "c", "d", "e", "f", "g", "h", "l", "r", "s", "t", "u",
           "x", "y"}

Spaces == {" ", "\n", "\r", "\t"}

\* source[pos], the terminating character at the end of the string
CharAt(src, pos) == IF pos < Len(src) THEN src[pos + 1] ELSE ""

peek(src, pos, expected) ==
    /\ pos + Len(expected) <= Len(src)
    /\ SubSeq(src, pos + 1, pos + Len(expected)) = expected

\* match is peek, and the caller moves pos by Len(expected) when it is true
match(src, pos, expected) == peek(src, pos, expected)

at_end(src, pos) == pos >= Len(src)

\* the rest of a // comment
RECURSIVE SkipComment(_, _)
SkipComment(src, pos) ==
    IF pos < Len(src) /\ src[pos + 1] \notin {"\n", "\r"}
    THEN SkipComment(src, pos + 1)
    ELSE pos

RECURSIVE skip_whitespace(_, _)
skip_whitespace(src, pos) ==
    IF pos >= Len(src) THEN pos
    ELSE IF src[pos + 1] \in Spaces THEN skip_whitespace(src, pos + 1)
    ELSE IF pos + 1 < Len(src) /\ src[pos + 1] = "/" /\ src[pos + 2] = "/"
    THEN skip_whitespace(src, SkipComment(src, pos + 2))
    ELSE pos

\* the position after the identifier that starts at pos
RECURSIVE consume_identifier(_, _)
consume_identifier(src, pos) ==
    IF pos < Len(src) /\ src[pos + 1] \in Alphas \cup Digits \cup {"_"}
    THEN consume_identifier(src, pos + 1)
    ELSE pos

\* the position after the integer that starts at pos
RECURSIVE consume_integer(_, _)
consume_integer(src, pos) ==
    IF pos < Len(src) /\ src[pos + 1] \in Digits
    THEN consume_integer(src, pos + 1)
    ELSE pos

DigitValue(c) ==
    CASE c = "0" -> 0 [] c = "1" -> 1 [] c = "2" -> 2 [] c = "3" -> 3
      [] c = "4" -> 4 [] c = "5" -> 5 [] c = "6" -> 6 [] c = "7" -> 7
      [] c = "8" -> 8 [] c = "9" -> 9

\* the digits of std::numeric_limits<int>::max()
IntMax == <<2, 1, 4, 7, 4, 8, 3, 6, 4, 7>>

\* digits without their leading zeros
RECURSIVE Significant(_)
Significant(ds) ==
    IF ds # <<>> /\ ds[1] = "0" THEN Significant(Tail(ds)) ELSE ds

\* ten digits, from the i-th on, are not above those of IntMax
RECURSIVE NotAboveIntMax(_, _)
NotAboveIntMax(ds, i) ==
    \/ i > Len(IntMax)
    \/ DigitValue(ds[i]) < IntMax[i]
    \/ (DigitValue(ds[i]) = IntMax[i] /\ NotAboveIntMax(ds, i + 1))

\* std::stoi returns: the number is in the range of int
FitsInt(ds) ==
    \/ Len(Significant(ds)) < Len(IntMax)
    \/ /\ Len(Significant(ds)) = Len(IntMax)
       /\ NotAboveIntMax(Significant(ds), 1)

\* the IntLiteral of the digits from pos to end, or the std::out_of_range
\* that std::stoi throws
IntegerAt(src, pos, end) ==
    IF FitsInt(SubSeq(src, pos + 1, end))
    THEN Parsed(IntLiteral, end)
    ELSE Thrown("stoi", end)

\* the position of the closing quote of the string whose text starts at pos,
\* Len(src) + 1 when the source ends right after a backslash and Len(src)
\* when it ends before a closing quote
RECURSIVE StringEnd(_, _)
StringEnd(src, pos) ==
    IF pos >= Len(src) THEN pos
    ELSE IF src[pos + 1] = "\"" THEN pos
    ELSE IF src[pos + 1] = "\\"
    THEN IF pos + 1 >= Len(src) THEN Len(src) + 1
         ELSE StringEnd(src, pos + 2)
    ELSE StringEnd(src, pos + 1)

consume_string(src, pos) ==
    LET close == StringEnd(src, pos + 1)
    IN  IF close >= Len(src)
        THEN error("Unterminated string", IF close > Len(src) THEN Len(src)
                                          ELSE close)
        ELSE Parsed(StringLiteral, close + 1)

expect(src, r, expected) ==
    IF r.err # "" THEN r
    ELSE IF match(src, r.pos, expected)
    THEN Parsed(r.expr, r.pos + Len(expected))
    ELSE error(IF expected = <<")">> THEN "Expected ')'" ELSE "Expected ';'",
               r.pos)

RECURSIVE parse_expr(_, _)

parse_primary(src, at) ==
    LET pos == skip_whitespace(src, at)
    IN  IF CharAt(src, pos) \in Digits
        THEN IntegerAt(src, pos, consume_integer(src, pos))
        ELSE IF match(src, pos, <<"t", "r", "u", "e">>)
        THEN Parsed(BoolLiteral, pos + 4)
        ELSE IF match(src, pos, <<"f", "a", "l", "s", "e">>)
        THEN Parsed(BoolLiteral, pos + 5)
        ELSE IF CharAt(src, pos) = "\""
        THEN consume_string(src, pos)
        ELSE IF CharAt(src, pos) \in Alphas \cup {"_"}
        THEN LET end == consume_identifier(src, pos)
             IN  Parsed(Identifier(SubSeq(src, pos + 1, end)), end)
        ELSE IF match(src, pos, <<"(">>)
        THEN expect(src, parse_expr(src, pos + 1), <<")">>)
        ELSE error("Expected expression", pos)

\* the do-while of parse_call: the arguments from pos on, as a result whose
\* expr is the call of callee built so far
RECURSIVE parse_call_args(_, _, _)
parse_call_args(src, call, pos) ==
    LET arg == parse_expr(src, pos)
        after == skip_whitespace(src, arg.pos)
        more == CallExpr(call.sub[1], Tail(call.sub) \o <<arg.expr>>)
    IN  IF arg.err # "" THEN arg
        ELSE IF match(src, after, <<",">>)
        THEN parse_call_args(src, more, after + 1)
        ELSE Parsed(more, after)

RECURSIVE parse_call_while(_, _)
parse_call_while(src, l) ==
    IF l.err # "" THEN l
    ELSE LET pos == skip_whitespace(src, l.pos)
         IN  IF match(src, pos, <<"(">>)
             THEN LET first == skip_whitespace(src, pos + 1)
                      args == IF peek(src, first, <<")">>)
                              THEN Parsed(CallExpr(l.expr, <<>>), first)
                              ELSE parse_call_args(src, CallExpr(l.expr, <<>>),
                                                   first)
                  IN  parse_call_while(src, expect(src, args, <<")">>))
             ELSE Parsed(l.expr, pos)

parse_call(src, pos) == parse_call_while(src, parse_primary(src, pos))

\* the node a prefix operator builds from its operand's result
Prefixed(r, kind, op) ==
    IF r.err # "" THEN r
    ELSE Parsed(IF kind = "unary" THEN UnaryExpr(op, r.expr)
                ELSE BorrowExpr(op = "mut", r.expr), r.pos)

RECURSIVE parse_unary(_, _)
parse_unary(src, at) ==
    LET pos == skip_whitespace(src, at)
    IN  IF match(src, pos, <<"-">>)
        THEN Prefixed(parse_unary(src, pos + 1), "unary", "Neg")
        ELSE IF match(src, pos, <<"!">>)
        THEN Prefixed(parse_unary(src, pos + 1), "unary", "Not")
        ELSE IF match(src, pos, <<"&">>)
        THEN IF match(src, pos + 1, <<"m", "u", "t">>)
             THEN Prefixed(parse_unary(src, skip_whitespace(src, pos + 4)),
                           "borrow", "mut")
             ELSE Prefixed(parse_unary(src, pos + 1), "borrow", "shared")
        ELSE parse_call(src, pos)

\* the node a binary operator builds from its operands' results
Combined(op, l, r) ==
    IF r.err # "" THEN r ELSE Parsed(BinaryExpr(op, l.expr, r.expr), r.pos)

RECURSIVE parse_factor_while(_, _)
parse_factor_while(src, l) ==
    IF l.err # "" THEN l
    ELSE LET pos == skip_whitespace(src, l.pos)
             op == IF match(src, pos, <<"*">>) THEN "Mul"
                   ELSE IF match(src, pos, <<"/">>) THEN "Div"
                   ELSE "break"
         IN  IF op = "break" THEN Parsed(l.expr, pos)
             ELSE parse_factor_while(src,
                      Combined(op, l,
                          parse_unary(src, skip_whitespace(src, pos + 1))))

parse_factor(src, pos) == parse_factor_while(src, parse_unary(src, pos))

RECURSIVE parse_term_while(_, _)
parse_term_while(src, l) ==
    IF l.err # "" THEN l
    ELSE LET pos == skip_whitespace(src, l.pos)
             op == IF match(src, pos, <<"+">>) THEN "Add"
                   ELSE IF match(src, pos, <<"-">>) THEN "Sub"
                   ELSE "break"
         IN  IF op = "break" THEN Parsed(l.expr, pos)
             ELSE parse_term_while(src,
                      Combined(op, l,
                          parse_factor(src, skip_whitespace(src, pos + 1))))

parse_term(src, pos) == parse_term_while(src, parse_factor(src, pos))

\* the operator the if-else chain of parse_comparison finds at pos, with the
\* number of characters match has consumed for it
ComparisonAt(src, pos) ==
    IF match(src, pos, <<"<">>) THEN [op |-> "Lt", len |-> 1]
    ELSE IF match(src, pos, <<"<", "=">>) THEN [op |-> "Le", len |-> 2]
    ELSE IF match(src, pos, <<">">>) THEN [op |-> "Gt", len |-> 1]
    ELSE IF match(src, pos, <<">", "=">>) THEN [op |-> "Ge", len |-> 2]
    ELSE [op |-> "break", len |-> 0]

RECURSIVE parse_comparison_while(_, _)
parse_comparison_while(src, l) ==
    IF l.err # "" THEN l
    ELSE LET pos == skip_whitespace(src, l.pos)
             found == ComparisonAt(src, pos)
         IN  IF found.op = "break" THEN Parsed(l.expr, pos)
             ELSE parse_comparison_while(src,
                      Combined(found.op, l,
                          parse_term(src,
                              skip_whitespace(src, pos + found.len))))

parse_comparison(src, pos) ==
    parse_comparison_while(src, parse_term(src, pos))

RECURSIVE parse_equality_while(_, _)
parse_equality_while(src, l) ==
    IF l.err # "" THEN l
    ELSE LET op == IF match(src, l.pos, <<"=", "=">>) THEN "Eq"
                   ELSE IF match(src, l.pos, <<"!", "=">>) THEN "Ne"
                   ELSE "break"
         IN  IF op = "break" THEN l
             ELSE parse_equality_while(src,
                      Combined(op, l,
                          parse_comparison(src,
                              skip_whitespace(src, l.pos + 2))))

parse_equality(src, pos) ==
    parse_equality_while(src, parse_comparison(src, pos))

RECURSIVE parse_and_while(_, _)
parse_and_while(src, l) ==
    IF l.err # "" THEN l
    ELSE IF match(src, l.pos, <<"&", "&">>)
    THEN parse_and_while(src,
             Combined("And", l,
                 parse_equality(src, skip_whitespace(src, l.pos + 2))))
    ELSE l

parse_and(src, pos) == parse_and_while(src, parse_equality(src, pos))

RECURSIVE parse_or_while(_, _)
parse_or_while(src, l) ==
    IF l.err # "" THEN l
    ELSE IF match(src, l.pos, <<"|", "|">>)
    THEN parse_or_while(src,
             Combined("Or", l,
                 parse_and(src, skip_whitespace(src, l.pos + 2))))
    ELSE l

parse_or(src, pos) == parse_or_while(src, parse_and(src, pos))

RECURSIVE parse_assignment(_, _)

parse_assignment_target_AnyTarget(src, lhs) ==
    IF lhs.err # "" THEN lhs
    ELSE IF match(src, lhs.pos, <<"=">>)
    THEN Combined("Assignment", lhs,
             parse_assignment(src, skip_whitespace(src, lhs.pos + 1)))
    ELSE lhs

\* parse_assignment once parse_or has returned lhs
parse_assignment_target(src, lhs) ==
    IF lhs.err # "" THEN lhs
    ELSE IF match(src, lhs.pos, <<"=">>)
    THEN IF lhs.expr.k # "ident"
         THEN Thrown("Invalid assignment target",
                     skip_whitespace(src, lhs.pos + 1))
         ELSE Combined("Assignment", lhs,
                  parse_assignment(src, skip_whitespace(src, lhs.pos + 1)))
    ELSE lhs

parse_assignment(src, pos) ==
    parse_assignment_target(src, parse_or(src, pos))

parse_expr(src, pos) == parse_assignment(src, pos)

\* parse_statement once parse_expr has returned r: the semicolon may be
\* missing before } and at the end of the source
ExprStmt(src, r) ==
    IF r.err # "" THEN r
    ELSE IF ~peek(src, skip_whitespace(src, r.pos), <<"}">>)
            /\ ~at_end(src, skip_whitespace(src, r.pos))
    THEN expect(src, Parsed(r.expr, skip_whitespace(src, r.pos)), <<";">>)
    ELSE Parsed(r.expr, skip_whitespace(src, r.pos))

\* parse_statement on a statement that starts with none of let, if, while
\* and {: an expression statement
parse_statement(src, at) ==
    ExprStmt(src, parse_expr(src, skip_whitespace(src, at)))

\* ------------------------------------------------------ inputs of the parser
\* the binary operators of BinaryExpr::Op with the characters of each
BinaryOps ==
    {"Assignment", "Or", "And", "Eq", "Ne", "Lt", "Le", "Gt", "Ge", "Add",
     "Sub", "Mul", "Div"}

OpChars(op) ==
    CASE op = "Assignment" -> <<"=">>
      [] op = "Or" -> <<"|", "|">>
      [] op = "And" -> <<"&", "&">>
      [] op = "Eq" -> <<"=", "=">>
      [] op = "Ne" -> <<"!", "=">>
      [] op = "Lt" -> <<"<">>
      [] op = "Le" -> <<"<", "=">>
      [] op = "Gt" -> <<">">>
      [] op = "Ge" -> <<">", "=">>
      [] op = "Add" -> <<"+">>
      [] op = "Sub" -> <<"-">>
      [] op = "Mul" -> <<"*">>
      [] op = "Div" -> <<"/">>

\* the name of the i-th operand of a chain
Leaf(i) == << <<"a">>, <<"b">>, <<"c">>, <<"d">>, <<"e">>, <<"g">> >>[i]

\* the text of a chain of identifiers joined by the operators ops, from its
\* i-th operand on, with sep around each operator
RECURSIVE Chain(_, _, _)
Chain(ops, i, sep) ==
    Leaf(i) \o (IF i > Len(ops) THEN <<>>
                ELSE sep \o OpChars(ops[i]) \o sep \o Chain(ops, i + 1, sep))

Separators == {<<>>, <<" ">>}

ChainInputs ==
    [kind : {"chain"},
     ops : UNION {[1..n -> BinaryOps] : n \in 0..MaxOps},
     sep : Separators]

\* left sides of an assignment: the text, and the name when the text is an
\* identifier
Targets ==
    { [text |-> <<"x">>, name |-> <<"x">>],
      [text |-> <<"y", "1">>, name |-> <<"y", "1">>],
      [text |-> <<"1">>, name |-> <<>>],
      [text |-> <<"t", "r", "u", "e">>, name |-> <<>>],
      [text |-> <<"\"", "s", "\"">>, name |-> <<>>],
      [text |-> <<"x", " ", "+", " ", "1">>, name |-> <<>>],
      [text |-> <<"x", "<", "y">>, name |-> <<>>],
      [text |-> <<"f", "(", ")">>, name |-> <<>>],
      [text |-> <<"f", "(", "x", ",", " ", "1", ")">>, name |-> <<>>],
      [text |-> <<"-", "x">>, name |-> <<>>],
      [text |-> <<"&", "m", "u", "t", " ", "x">>, name |-> <<>>],
      [text |-> <<"(", "x", " ", "=", " ", "1", ")">>, name |-> <<>>] }

\* right sides of an assignment: the text and the tree it stands for
Values ==
    { [text |-> <<"2", "0">>, tree |-> IntLiteral],
      [text |-> <<"b", " ", "+", " ", "1">>,
       tree |-> BinaryExpr("Add", Identifier(<<"b">>), IntLiteral)],
      [text |-> <<"y", " ", "=", " ", "f", "a", "l", "s", "e">>,
       tree |-> BinaryExpr("Assignment", Identifier(<<"y">>), BoolLiteral)] }

AssignInputs ==
    [kind : {"assign"}, target : Targets, parens : 0..MaxParens,
     sep : Separators, value : Values]

\* integer literals around the largest int
LiteralInputs ==
    [kind : {"literal"},
     text : { <<"7">>,
              <<"0", "0", "0", "0", "0", "0", "0", "0", "0", "0", "7">>,
              <<"2", "1", "4", "7", "4", "8", "3", "6", "4", "7">>,
              <<"2", "1", "4", "7", "4", "8", "3", "6", "4", "8">>,
              <<"9", "9", "9", "9", "9", "9", "9", "9", "9", "9", "9">> }]

RECURSIVE Wrap(_, _, _)
Wrap(n, text, sep) ==
    IF n = 0 THEN text
    ELSE <<"(">> \o sep \o Wrap(n - 1, text, sep) \o sep \o <<")">>

\* the statement an input stands for
SourceOf(in) ==
    IF in.kind = "chain"
    THEN Chain(in.ops, 1, in.sep) \o <<";">>
    ELSE IF in.kind = "literal"
    THEN in.text \o <<";">>
    ELSE Wrap(in.parens, in.target.text, in.sep) \o in.sep \o <<"=">>
            \o in.sep \o in.value.text \o <<";">>

\* -------------------------------------------------- parse_statement, called
\* Parser::Parser(source), the parser at a statement of a function body
InitParse ==
    /\ given \in ChainInputs \cup AssignInputs \cup LiteralInputs
    /\ source = SourceOf(given)
    /\ parsed = NotParsed
    /\ program = <<>>
    /\ scopes = <<>>
    /\ errors = <<>>
    /\ fi = 1
    /\ pc = "parse_statement"
    /\ ctl = <<>>
    /\ success = TRUE
    /\ result = "none"
    /\ untyped = FALSE
    /\ nstmts = 0
    /\ nblocks = 0
    /\ trailing = <<>>
    /\ asg = <<>>
    /\ CompilerConstructed
    /\ NoMain

CallParseStatement ==
    /\ pc = "parse_statement"
    /\ parsed' = parse_statement(source, 0)
    /\ pc' = "parsed"
    /\ UNCHANGED <<program, scopes, errors, fi, ctl, success, result, untyped,
                   nstmts, nblocks, trailing, asg, cvars, source, given,
                   mvars>>

NextParse == CallParseStatement

SpecParse == InitParse /\ [][NextParse]_vars

\* ----------------------------------------------------------------- the CLI
\* enum class Opcode, in the order of its enumerators
OpcodeNames ==
    <<"PUSH_I32", "PUSH_BOOL", "PUSH_STR", "POP", "DUP", "SWAP", "LOAD",
      "STORE", "LOAD_REF", "STORE_REF", "ADD_I32", "SUB_I32", "MUL_I32",
      "DIV_I32", "NEG_I32", "EQ_I32", "NE_I32", "LT_I32", "GT_I32", "LE_I32",
      "GE_I32", "AND", "OR", "NOT", "JMP", "JMP_IF", "JMP_IF_NOT", "CALL",
      "RET", "RET_VAL", "BORROW", "BORROW_MUT", "DEREF", "DEREF_MUT">>

\* static_cast<uint8_t>(opcode)
OpcodeByte(opcode) ==
    (CHOOSE i \in DOMAIN OpcodeNames : OpcodeNames[i] = opcode) - 1

opcode_to_string(opcode) ==
    CASE opcode = "PUSH_I32" -> "PUSH_I32"
      [] opcode = "PUSH_BOOL" -> "PUSH_BOOL"
      [] opcode = "PUSH_STR" -> "PUSH_STR"
      [] opcode = "POP" -> "POP"
      [] opcode = "DUP" -> "DUP"
      [] opcode = "SWAP" -> "SWAP"
      [] opcode = "LOAD" -> "LOAD"
      [] opcode = "STORE" -> "STORE"
      [] opcode = "LOAD_REF" -> "LOAD_REF"
      [] opcode = "STORE_REF" -> "STORE_REF"
      [] opcode = "ADD_I32" -> "ADD_I32"
      [] opcode = "SUB_I32" -> "SUB_I32"
      [] opcode = "MUL_I32" -> "MUL_I32"
      [] opcode = "DIV_I32" -> "DIV_I32"
      [] opcode = "NEG_I32" -> "NEG_I32"
      [] opcode = "EQ_I32" -> "EQ_I32"
      [] opcode = "NE_I32" -> "NE_I32"
      [] opcode = "LT_I32" -> "LT_I32"
      [] opcode = "GT_I32" -> "GT_I32"
      [] opcode = "LE_I32" -> "LE_I32"
      [] opcode = "GE_I32" -> "GE_I32"
      [] opcode = "AND" -> "AND"
      [] opcode = "OR" -> "OR"
      [] opcode = "NOT" -> "NOT"
      [] opcode = "JMP" -> "JMP"
      [] opcode = "JMP_IF" -> "JMP_IF"
      [] opcode = "JMP_IF_NOT" -> "JMP_IF_NOT"
      [] opcode = "CALL" -> "CALL"
      [] opcode = "RET" -> "RET"
      [] opcode = "RET_VAL" -> "RET_VAL"
      [] opcode = "BORROW" -> "BORROW"
      [] opcode = "BORROW_MUT" -> "BORROW_MUT"
      [] opcode = "DEREF" -> "DEREF"
      [] opcode = "DEREF_MUT" -> "DEREF_MUT"
      [] OTHER -> "UNKNOWN_OPCODE"

has_operand_StoreWithout(opcode) ==
    opcode \in {"PUSH_I32", "PUSH_BOOL", "PUSH_STR", "LOAD", "LOAD_REF",
                "JMP", "JMP_IF", "JMP_IF_NOT", "CALL"}

has_operand(opcode) ==
    opcode \in {"PUSH_I32", "PUSH_BOOL", "PUSH_STR", "LOAD", "STORE",
                "LOAD_REF", "JMP", "JMP_IF", "JMP_IF_NOT", "CALL"}

\* sizeof(size_t) on the host
WordBytes == 8

DigitChar(d) == <<"0", "1", "2", "3", "4", "5", "6", "7", "8", "9">>[d + 1]

\* operator<< of a size_t: its decimal digits
RECURSIVE ToDecimal(_)
ToDecimal(n) ==
    IF n < 10 THEN <<DigitChar(n)>>
    ELSE ToDecimal(n \div 10) \o <<DigitChar(n % 10)>>

\* the bytes (operand >> (i * 8)) & 0xFF for i from 0 to count - 1
RECURSIVE LittleEndian(_, _)
LittleEndian(operand, count) ==
    IF count = 0 THEN <<>>
    ELSE <<operand % 256>> \o LittleEndian(operand \div 256, count - 1)

\* the lines written to the .ns file, each as its words: the opcode's name
\* and, for an opcode with an operand, the operand's digits
AsmLines(ins) ==
    [i \in DOMAIN ins |->
        IF has_operand(ins[i].opcode)
        THEN <<opcode_to_string(ins[i].opcode), ToDecimal(ins[i].operand)>>
        ELSE <<opcode_to_string(ins[i].opcode)>>]

\* the bytes written to the .no file for the instructions from the i-th on
RECURSIVE Bytecode(_, _)
Bytecode(ins, i) ==
    IF i > Len(ins) THEN <<>>
    ELSE <<OpcodeByte(ins[i].opcode)>>
            \o (IF has_operand(ins[i].opcode)
                THEN LittleEndian(ins[i].operand, WordBytes)
                ELSE <<>>)
            \o Bytecode(ins, i + 1)

\* a file that does not exist, one that exists from before the run, and one
\* an std::ofstream of the run has opened and written content to
Absent == [state |-> "absent", content |-> <<>>]

Old == [state |-> "old", content |-> <<"old">>]

Written(content) == [state |-> "written", content |-> content]

\* the instructions Compiler::compile emits: an operand with the opcodes
\* that are emitted with one, operand 0 with the others
EmittedInstructions ==
    {Instruction(op, n) :
        op \in {"PUSH_I32", "PUSH_BOOL", "PUSH_STR", "LOAD", "STORE", "JMP",
                "JMP_IF_NOT", "CALL"},
        n \in {0, 300}}
    \cup {Instruction(op, 0) :
            op \in {"POP", "ADD_I32", "SUB_I32", "MUL_I32", "DIV_I32",
                    "NEG_I32", "EQ_I32", "NE_I32", "LT_I32", "GT_I32",
                    "LE_I32", "GE_I32", "AND", "OR", "NOT", "RET", "BORROW",
                    "BORROW_MUT"}}

EmittedSeqs == UNION {[1..n -> EmittedInstructions] : n \in 0..MaxIns}

\* runs that end before the output, and that the output's files fail in
FailingRuns ==
    [argc : {1, 2, 3}, readable : BOOLEAN, parses : BOOLEAN,
     checks : BOOLEAN, compiles : BOOLEAN,
     emitted : {<<Instruction("PUSH_I32", 300), Instruction("POP", 0),
                  Instruction("RET", 0)>>},
     ns_opens : {TRUE}, ns_writes : {TRUE}, no_opens : {TRUE},
     no_writes : {TRUE}, before : {Absent, Old}]
    \cup
    [argc : {2}, readable : {TRUE}, parses : {TRUE}, checks : {TRUE},
     compiles : {TRUE},
     emitted : {<<>>, <<Instruction("PUSH_I32", 300), Instruction("POP", 0),
                       Instruction("RET", 0)>>},
     ns_opens : BOOLEAN, ns_writes : BOOLEAN, no_opens : BOOLEAN,
     no_writes : BOOLEAN, before : {Absent, Old}]

\* runs in which every step succeeds
GoodRuns ==
    [argc : {2}, readable : {TRUE}, parses : {TRUE}, checks : {TRUE},
     compiles : {TRUE}, emitted : EmittedSeqs,
     ns_opens : {TRUE}, ns_writes : {TRUE}, no_opens : {TRUE},
     no_writes : {TRUE}, before : {Absent, Old}]

InitMain ==
    /\ run \in FailingRuns \cup GoodRuns
    /\ ns = run.before
    /\ no = run.before
    /\ exit_code = "none"
    /\ program = <<>>
    /\ scopes = <<>>
    /\ errors = <<>>
    /\ fi = 1
    /\ pc = "main"
    /\ ctl = <<>>
    /\ success = TRUE
    /\ result = "none"
    /\ untyped = FALSE
    /\ nstmts = 0
    /\ nblocks = 0
    /\ trailing = <<>>
    /\ asg = <<>>
    /\ CompilerConstructed
    /\ source = <<>>
    /\ parsed = NotParsed
    /\ given = [kind |-> "none"]

\* what a step of main leaves alone
MainIdle ==
    UNCHANGED <<program, scopes, errors, fi, ctl, success, result, untyped,
                nstmts, nblocks, trailing, asg, string_constants, local_vars,
                next_local_index, function_table, thrown, accepted, slots,
                jumps, ranges, pvars, run>>

\* return code from main
main_return(code) ==
    /\ exit_code' = code
    /\ pc' = "exited"

\* main goes on with the step at
Continue(at) ==
    /\ exit_code' = exit_code
    /\ pc' = at

main_arguments ==
    /\ pc = "main"
    /\ IF run.argc # 2 THEN main_return(1) ELSE Continue("read")
    /\ UNCHANGED <<ns, no, instructions>>
    /\ MainIdle

main_read_source ==
    /\ pc = "read"
    /\ IF ~run.readable THEN main_return(1) ELSE Continue("parse")
    /\ UNCHANGED <<ns, no, instructions>>
    /\ MainIdle

main_parse ==
    /\ pc = "parse"
    /\ IF ~run.parses THEN main_return(1) ELSE Continue("check")
    /\ UNCHANGED <<ns, no, instructions>>
    /\ MainIdle

main_check_program ==
    /\ pc = "check"
    /\ IF ~run.checks THEN main_return(1) ELSE Continue("compile_main")
    /\ UNCHANGED <<ns, no, instructions>>
    /\ MainIdle

main_compile ==
    /\ pc = "compile_main"
    /\ IF ~run.compiles
       THEN main_return(1) /\ UNCHANGED instructions
       ELSE Continue("open_ns") /\ instructions' = run.emitted
    /\ UNCHANGED <<ns, no>>
    /\ MainIdle

main_open_ns ==
    /\ pc = "open_ns"
    /\ IF ~run.ns_opens
       THEN main_return(1) /\ UNCHANGED ns
       ELSE Continue("write_ns") /\ ns' = Written(<<>>)
    /\ UNCHANGED <<no, instructions>>
    /\ MainIdle

\* the loop over the instructions; a failed write is not looked at
main_write_ns ==
    /\ pc = "write_ns"
    /\ IF run.ns_writes \/ instructions = <<>>
       THEN ns' = Written(AsmLines(instructions))
       ELSE \E n \in 0..(Len(instructions) - 1) :
               ns' = Written(SubSeq(AsmLines(instructions), 1, n))
    /\ Continue("open_no")
    /\ UNCHANGED <<no, instructions>>
    /\ MainIdle

main_open_no ==
    /\ pc = "open_no"
    /\ IF ~run.no_opens
       THEN main_return(1) /\ UNCHANGED no
       ELSE Continue("write_no") /\ no' = Written(<<>>)
    /\ UNCHANGED <<ns, instructions>>
    /\ MainIdle

\* the loop over the instructions, then the end of main
main_write_no ==
    /\ pc = "write_no"
    /\ IF run.no_writes \/ instructions = <<>>
       THEN no' = Written(Bytecode(instructions, 1))
       ELSE \E n \in 0..(Len(Bytecode(instructions, 1)) - 1) :
               no' = Written(SubSeq(Bytecode(instructions, 1), 1, n))
    /\ main_return(0)
    /\ UNCHANGED <<ns, instructions>>
    /\ MainIdle

NextMain ==
    \/ main_arguments
    \/ main_read_source
    \/ main_parse
    \/ main_check_program
    \/ main_compile
    \/ main_open_ns
    \/ main_write_ns
    \/ main_open_no
    \/ main_write_no

SpecMain == InitMain /\ [][NextMain]_vars

\* --------------------------------------------- the reader of the two files
\* the opcodes the opcode table gives an operand
TableOperandOpcodes ==
    {"PUSH_I32", "PUSH_BOOL", "PUSH_STR", "LOAD", "STORE", "LOAD_REF", "JMP",
     "JMP_IF", "JMP_IF_NOT", "CALL"}

\* the number a sequence of decimal digits stands for
RECURSIVE FromDecimal(_)
FromDecimal(ds) ==
    IF ds = <<>> THEN 0
    ELSE 10 * FromDecimal(SubSeq(ds, 1, Len(ds) - 1)) + DigitValue(ds[Len(ds)])

\* the instructions read back from the lines of a listing: the opcode whose
\* name the first word is, and the operand the second word gives
ReadListing(lines) ==
    [i \in DOMAIN lines |->
        Instruction(IF lines[i][1] \in {OpcodeNames[k] : k \in DOMAIN OpcodeNames} THEN lines[i][1]
                    ELSE "unknown",
                    IF Len(lines[i]) > 1 THEN FromDecimal(lines[i][2])
                    ELSE 0)]

\* the binary format of instructions from the i-th on, by the opcode table
RECURSIVE TableEncoding(_, _)
TableEncoding(ins, i) ==
    IF i > Len(ins) THEN <<>>
    ELSE <<OpcodeByte(ins[i].opcode)>>
            \o (IF ins[i].opcode \in TableOperandOpcodes
                THEN LittleEndian(ins[i].operand, WordBytes)
                ELSE <<>>)
            \o TableEncoding(ins, i + 1)

\* ------------------------------------------------------------ observations
Range(q) == {q[i] : i \in DOMAIN q}

\* the checker is about to check a statement
AtStatement == pc \in {"stmts", "more"}

\* the calls of check_expression made when expression e is checked in the
\* current state
EventsOf(e) ==
    LET Step(ub) == check_expression(e, scopes, ub)
    IN  UNION {Range(r.ev) : r \in Outcomes(Step)}

\* the calls of check_expression the next statement can make when its
\* expression is one of es
NextEvents(es) == IF AtStatement THEN UNION {EventsOf(e) : e \in es} ELSE {}

\* expression e has a node of class k with operator a
RECURSIVE Mentions(_, _, _)
Mentions(e, k, a) ==
    \/ (e.k = k /\ e.a = a)
    \/ \E i \in DOMAIN e.sub : Mentions(e.sub[i], k, a)

MutBorrowExprs == {e \in Exprs : Mentions(e, "borrow", "mut")}

AssignmentExprs == {e \in Exprs : Mentions(e, "binary", "Assignment")}

CallExprs == {e \in Exprs : Mentions(e, "call", "")}

\* the calls of check_expression made for the body's last statement
TrailingEvents == IF trailing = <<>> THEN {} ELSE Range(trailing[1].ev)

\* the binding that name resolves to in sc was mutably borrowed
Borrowed(sc, name) ==
    LET i == FrameOf(sc, name, Len(sc))
    IN  i # 0 /\ sc[i][name].borrowed

\* name resolves to a variable in sc (no function has the name)
ResolvesToVariable(sc, name) ==
    FindFunction(program, name, 1) = 0 /\ FrameOf(sc, name, Len(sc)) # 0

IsMutBorrowOfIdent(e) == e.k = "borrow" /\ e.a = "mut" /\ e.sub[1].k = "ident"

IsAssignmentToIdent(e) ==
    e.k = "binary" /\ e.a = "Assignment" /\ e.sub[1].k = "ident"

HasError(text) == \E i \in DOMAIN errors : errors[i][1] = text

\* check_program never returns true with an error recorded
FailsProgram(text) == (pc = "done" /\ HasError(text)) => result = FALSE

\* ------------------------------------------------------------------ claims
\* C1: once `&mut v` has been checked successfully, every later `&mut v` of
\* the same binding is rejected with "Variable already mutably borrowed" and
\* check_program returns false.
C1_SecondMutBorrowRejected ==
    /\ \A ev \in NextEvents(MutBorrowExprs) \cup TrailingEvents :
          (IsMutBorrowOfIdent(ev.e) /\ Borrowed(ev.pre, ev.e.sub[1].a))
              => /\ ~ev.ok
                 /\ ev.err = <<"Variable already mutably borrowed", ev.e.sub[1].a>>
    /\ FailsProgram("Variable already mutably borrowed")

\* a second `&mut x` of a borrowed binding was the body's last statement and
\* check_program has returned
C1_Witness ==
    /\ pc = "done"
    /\ result = FALSE
    /\ HasError("Variable already mutably borrowed")
    /\ \E ev \in TrailingEvents :
          IsMutBorrowOfIdent(ev.e) /\ Borrowed(ev.pre, "x") /\ ~ev.ok

\* C2: once `&mut v` has been checked successfully, every later assignment
\* `v = e` to that binding is rejected with "Cannot use variable while mutably
\* borrowed", whatever e is, and check_program returns false.
C2_AssignWhileBorrowedRejected ==
    /\ \A ev \in NextEvents(AssignmentExprs) \cup TrailingEvents :
          (IsAssignmentToIdent(ev.e) /\ Borrowed(ev.pre, ev.e.sub[1].a))
              => /\ ~ev.ok
                 /\ ev.err = <<"Cannot use variable while mutably borrowed",
                               ev.e.sub[1].a>>
    /\ FailsProgram("Cannot use variable while mutably borrowed")

C2_Witness ==
    /\ pc = "done"
    /\ result = FALSE
    /\ HasError("Cannot use variable while mutably borrowed")
    /\ \E ev \in TrailingEvents :
          IsAssignmentToIdent(ev.e) /\ Borrowed(ev.pre, ev.e.sub[1].a) /\ ~ev.ok

\* C3: `&mut x` of an identifier that resolves to a binding declared without
\* `mut` is rejected with "Cannot borrow immutable variable as mutable", and
\* the failed borrow leaves the scope stack (so the binding's stored type) as
\* it was.
C3_ImmutableBorrowRejected ==
    \A ev \in NextEvents(MutBorrowExprs) \cup TrailingEvents :
        LET name == ev.e.sub[1].a
        IN  (/\ IsMutBorrowOfIdent(ev.e)
             /\ ResolvesToVariable(ev.pre, name)
             /\ ~ev.pre[FrameOf(ev.pre, name, Len(ev.pre))][name].is_mut)
               => /\ ~ev.ok
                  /\ ev.err = <<"Cannot borrow immutable variable as mutable", "">>
                  /\ ev.post = ev.pre

C3_Witness ==
    /\ pc = "done"
    /\ result = FALSE
    /\ HasError("Cannot borrow immutable variable as mutable")
    /\ \E ev \in TrailingEvents :
          /\ IsMutBorrowOfIdent(ev.e)
          /\ ResolvesToVariable(ev.pre, ev.e.sub[1].a)
          /\ ~ev.ok
          /\ ev.post = ev.pre

\* the relation C6 describes, level by level: the chains have the same length
\* and at each level the kinds are equal or the target is Ref and the source
\* MutRef
AssignableLevels(target, src) ==
    /\ Len(target) = Len(src)
    /\ \A i \in DOMAIN target :
          \/ target[i] = src[i]
          \/ (target[i] = "Ref" /\ src[i] = "MutRef")

\* C6: for types whose references all have a base type, is_assignable holds
\* exactly when the kinds are equal and the base types assignable, or the
\* target is Ref(T), the source MutRef(U) and T assignable from U; a Ref
\* source is never assignable to a MutRef target, nor a primitive to another.
C6_AssignableRelation ==
    (asg # <<>> /\ asg.res # "none"
        /\ WellFormed(asg.target) /\ WellFormed(asg.source))
       => /\ asg.res \in {"true", "false"}
          /\ (asg.res = "true") <=> AssignableLevels(asg.target, asg.source)
          /\ (asg.target[1] = "MutRef" /\ asg.source[1] = "Ref")
                => asg.res = "false"
          /\ (asg.target[1] \in PrimKinds /\ asg.source[1] \in PrimKinds
                /\ asg.target[1] # asg.source[1]) => asg.res = "false"

\* &&i32 has been found assignable from &mut &mut i32
C6_Witness ==
    /\ asg # <<>>
    /\ asg.target = <<"Ref", "Ref", "I32">>
    /\ asg.source = <<"MutRef", "MutRef", "I32">>
    /\ asg.res = "true"

\* the function check_function has just returned from
ReturnedFunction == IF success /\ pc # "ret" THEN fi - 1 ELSE fi

\* C4: a function whose body ends in an expression statement is accepted
\* exactly when that statement type-checks inside the body and the type the
\* expression has there is assignable to the declared return type.
C4_TrailingTypeDecides ==
    (pc \in {"loop", "done"} /\ trailing # <<>>)
       => /\ ~trailing[1].ok => ~success
          /\ (trailing[1].ok /\ WellFormed(trailing[1].ty))
                => (success <=>
                      is_assignable(program[ReturnedFunction].ret,
                                    trailing[1].ty) = "true")

\* C5: an accepted call has an identifier callee that names a function of the
\* program, as many arguments as that function has parameters, and the
\* function's declared return type as its inferred type.
C5_CallTypedAsDeclared ==
    \A ev \in TrailingEvents :
        (ev.e.k = "call" /\ ev.ok)
           => LET callee == ev.e.sub[1]
                  idx == FindFunction(program, callee.a, 1)
              IN  /\ callee.k = "ident"
                  /\ idx # 0
                  /\ Len(ev.e.sub) - 1 = Len(program[idx].params)
                  /\ ev.ty = program[idx].ret

\* C7: check_program returns only after check_function has been called on
\* every function of the program, also when one of them failed.
C7_EveryFunctionChecked == (pc = "done") => fi >= Len(program)

\* C8: at most one error is recorded for a function (check_program stops at
\* the first function that fails, so every recorded error is of one function).
C8_OneErrorPerFunction == Len(errors) <= 1

\* C9: after check_program has returned true no expression node is left
\* without an inferred type, and a check of an expression succeeds exactly
\* when it gives the expression a type.
C9_CheckedMeansTyped ==
    /\ (pc = "done" /\ result = TRUE) => ~untyped
    /\ \A ev \in TrailingEvents : ev.ok <=> (ev.ty # NullType)

\* C10: every type stored in the scope stack and every inferred type has a
\* base type at every reference level, and no check runs into a missing one.
C10_BaseTypesPresent ==
    /\ \A i \in DOMAIN scopes : \A n \in DOMAIN scopes[i] :
          WellFormed(scopes[i][n].type)
    /\ \A ev \in TrailingEvents : ev.ty = NullType \/ WellFormed(ev.ty)
    /\ pc # "crashed"

\* expression e uses the name of a function of the program somewhere other
\* than as the callee of a call
RECURSIVE UsesFunctionName(_)
UsesFunctionName(e) ==
    CASE e.k = "ident" -> FindFunction(program, e.a, 1) # 0
      [] e.k = "call" ->
            \/ (e.sub[1].k # "ident" /\ UsesFunctionName(e.sub[1]))
            \/ \E i \in 2..Len(e.sub) : UsesFunctionName(e.sub[i])
      [] OTHER -> \E i \in DOMAIN e.sub : UsesFunctionName(e.sub[i])

\* C11: an expression statement that uses the name of a function other than
\* as a callee is rejected and an error is recorded for it.
C11_FunctionNameUseRejected ==
    (trailing # <<>> /\ UsesFunctionName(trailing[1].e))
       => (~trailing[1].ok /\ errors # <<>>)

\* ------------------------------------------------- observations of compile
\* the instruction at absolute index i
InstructionAt(i) == instructions[i + 1]

\* every node of expression e, e included
RECURSIVE Nodes(_)
Nodes(e) == {e} \cup UNION {Nodes(e.sub[i]) : i \in DOMAIN e.sub}

\* the call expressions of the statements compiled
CCalls ==
    {e \in UNION {Nodes(x) : x \in CExprs \cup {l.init : l \in CLets}} :
        e.k = "call"}

\* the code compile_expression emits for e in the current state
CodeOf(e) ==
    compile_expression(e, local_vars, function_table,
                       Len(string_constants)).code

\* the length of the code of the arguments of call e that come after
\* argument i in the source
RECURSIVE CodeAfter(_, _)
CodeAfter(e, i) ==
    IF i >= Len(e.sub) - 1 THEN 0
    ELSE Len(CodeOf(e.sub[i + 2])) + CodeAfter(e, i + 1)

\* the position in the program (from 0) of the declaration that a call of
\* name reaches: the function of that name, the last one when the name is
\* declared more than once
DeclarationIndex(name) ==
    (CHOOSE i \in DOMAIN program :
        /\ program[i].name = name
        /\ \A j \in DOMAIN program : program[j].name = name => j <= i) - 1

\* compile is at a statement and has not thrown
Lowering == pc = "cstmts" /\ thrown = ""

\* C12: when check_program has returned true, compile returns without
\* having thrown.
C12_AcceptedProgramsLower ==
    (pc = "compiled" /\ result = TRUE) => thrown = ""

C14_TableDescribesFunctions ==
    (pc = "compiled" /\ result = TRUE /\ thrown = "")
       => /\ Len(function_table.functions) = Len(program)
          /\ \A i \in DOMAIN program :
                LET info == function_table.functions[i]
                IN  /\ info.name = program[i].name
                    /\ info.num_params = Len(program[i].params)
                    /\ info.entry_point = ranges[i].entry
                    /\ info.num_locals = ranges[i].locals
          /\ \A i \in DOMAIN program : \A j \in DOMAIN program :
                i < j => function_table.functions[i].entry_point
                           < function_table.functions[j].entry_point

\* C15: within a function every let gets a local index that no parameter of
\* the function and no other let of the function has.
C15_LetSlotsDistinct ==
    (accepted /\ thrown = "")
       => \A i \in DOMAIN slots :
            /\ slots[i].index >= Len(program[slots[i].fn].params)
            /\ \A j \in DOMAIN slots :
                  (i # j /\ slots[i].fn = slots[j].fn)
                     => slots[i].index # slots[j].index

\* C16: the JMP_IF_NOT of a lowered if holds the absolute index of the first
\* instruction after the then branch's code (the first of the else branch,
\* after the skip JMP, when there is an else), and the skip JMP holds the
\* absolute index of the first instruction after the else branch's code.
C16_IfJumpTargets ==
    \A i \in DOMAIN jumps :
        LET j == jumps[i]
        IN  j.kind = "if" =>
              /\ InstructionAt(j.jin) =
                    Instruction("JMP_IF_NOT",
                                IF j.has_else THEN j.mark + 1 ELSE j.mark)
              /\ j.has_else => InstructionAt(j.mark) = Instruction("JMP", j.last)

\* an if with an else, nested in the then branch of an if of the second
\* function, has been lowered, the enclosing if as well
C16_Witness ==
    \E a \in DOMAIN jumps, b \in DOMAIN jumps :
        /\ jumps[a].kind = "if" /\ jumps[b].kind = "if"
        /\ jumps[a].fn = 2 /\ jumps[b].fn = 2
        /\ jumps[a].has_else
        /\ jumps[b].jin < jumps[a].jin
        /\ jumps[a].last <= jumps[b].mark
        /\ jumps[a].mark > jumps[a].jin + 1
        /\ jumps[a].last > jumps[a].mark + 1

\* C17: the JMP after a lowered while's body holds the absolute index of the
\* first instruction of the condition, its JMP_IF_NOT the index of the
\* instruction after that JMP, and both lie in the function's instructions.
C17_WhileJumpTargets ==
    \A i \in DOMAIN jumps :
        LET j == jumps[i]
        IN  j.kind = "while" =>
              /\ InstructionAt(j.mark) = Instruction("JMP", j.start)
              /\ InstructionAt(j.jin) = Instruction("JMP_IF_NOT", j.mark + 1)
              /\ j.start < j.jin
              /\ j.fn \in DOMAIN ranges =>
                    /\ ranges[j.fn].entry <= j.start
                    /\ j.mark + 1 < ranges[j.fn].end

\* a while with a statement in its body has been lowered in the second
\* function, which has been compiled to its end
C17_Witness ==
    /\ Len(ranges) = 2
    /\ \E i \in DOMAIN jumps :
          /\ jumps[i].kind = "while"
          /\ jumps[i].fn = 2
          /\ jumps[i].start > 0
          /\ jumps[i].mark > jumps[i].jin + 1

\* ---------------------------------------- observations of parse_statement
\* the level of a binary operator in the precedence table, assignment lowest
Level(op) ==
    CASE op = "Assignment" -> 0
      [] op = "Or" -> 1
      [] op = "And" -> 2
      [] op \in {"Eq", "Ne"} -> 3
      [] op \in {"Lt", "Le", "Gt", "Ge"} -> 4
      [] op \in {"Add", "Sub"} -> 5
      [] op \in {"Mul", "Div"} -> 6

\* the text, without spaces, that a tree of identifiers and binary operators
\* is the reading of
RECURSIVE Unparse(_)
Unparse(e) ==
    IF e.k = "binary"
    THEN Unparse(e.sub[1]) \o OpChars(e.a) \o Unparse(e.sub[2])
    ELSE e.a

\* Every operator of e has operands that bind as the table says: the left
\* operand's operator is of the same level or a higher one, the right
\* operand's of a higher one; an assignment has an identifier on its left
\* and anything on its right.
RECURSIVE FollowsTable(_)
FollowsTable(e) ==
    e.k = "binary" =>
        /\ FollowsTable(e.sub[1])
        /\ FollowsTable(e.sub[2])
        /\ IF e.a = "Assignment" THEN e.sub[1].k = "ident"
           ELSE /\ e.sub[1].k = "binary" => Level(e.sub[1].a) >= Level(e.a)
                /\ e.sub[2].k = "binary" => Level(e.sub[2].a) > Level(e.a)

\* the assignments of a chain come first: each has one identifier on its
\* left
Grammatical(ops) ==
    \A i \in DOMAIN ops :
        ops[i] = "Assignment" => \A j \in 1..i : ops[j] = "Assignment"

\* an assignment of the chain follows another operator, and no <= or >=
\* comes before it
MisplacedAssignment(ops) ==
    \E k \in DOMAIN ops :
        /\ ops[k] = "Assignment"
        /\ \E j \in 1..k : ops[j] # "Assignment"
        /\ \A j \in 1..k : ops[j] \notin {"Le", "Ge"}

\* parse_statement has returned the chain's reading by the table
ChainParsedByTable ==
    /\ parsed.err = ""
    /\ parsed.pos = Len(source)
    /\ Unparse(parsed.expr) = Chain(given.ops, 1, <<>>)
    /\ FollowsTable(parsed.expr)

\* parse_statement was called on a chain of operators
ChainParsed == pc = "parsed" /\ given.kind = "chain"

\* The chains without <= and >= are read by the table.
ChainsWithoutLeGeFollowTable ==
    (/\ ChainParsed
     /\ Grammatical(given.ops)
     /\ \A i \in DOMAIN given.ops : given.ops[i] \notin {"Le", "Ge"})
        => ChainParsedByTable

\* C18: a chain of identifiers and two or more binary operators is parsed to the tree
\* the precedence table gives it: an operator of a higher level binds
\* tighter, operators of one level associate to the left, assignment is the
\* lowest and associates to the right.
C18_PrecedenceTable ==
    (ChainParsed /\ Grammatical(given.ops) /\ Len(given.ops) >= 2)
        => ChainParsedByTable

\* C19: a < b, a <= b, a > b and a >= b parse to the Binary node of Lt, Le,
\* Gt and Ge with operands a and b.
C19_ComparisonOperators ==
    \A op \in {"Lt", "Le", "Gt", "Ge"} :
        (ChainParsed /\ given.ops = <<op>>)
           => /\ parsed.err = ""
              /\ parsed.expr =
                    BinaryExpr(op, Identifier(Leaf(1)), Identifier(Leaf(2)))

C21_ErrorsHavePosition ==
    (pc = "parsed" /\ parsed.err # "") => ~parsed.raw

\* ------------------------------------------------- observations of the CLI
\* main has returned 0 and every write to the two files succeeded
OutputComplete ==
    /\ pc = "exited"
    /\ exit_code = 0
    /\ run.ns_writes
    /\ run.no_writes

\* C22: the .ns listing read back is the instruction sequence the compiler
\* emitted, that sequence encoded by the opcode table (one opcode byte, then
\* the operand as a little-endian host word exactly for the opcodes with an
\* operand) is the content of the .no file, and a line of the listing has an
\* operand exactly when the table gives its opcode one.
C22_ListingRoundTrip ==
    OutputComplete =>
        /\ ReadListing(ns.content) = instructions
        /\ TableEncoding(ReadListing(ns.content), 1) = no.content
        /\ \A i \in DOMAIN ns.content :
              (Len(ns.content[i]) = 2)
                  <=> (instructions[i].opcode \in TableOperandOpcodes)

C22_Witness ==
    /\ OutputComplete
    /\ instructions = <<Instruction("STORE", 300), Instruction("RET", 0)>>
    /\ ns.content = <<<<"STORE", <<"3", "0", "0">>>>, <<"RET">>>>
    /\ no.content = <<7, 44, 1, 0, 0, 0, 0, 0, 0, 28>>

\* C23: a run that exits with 1 has neither created nor modified the .ns and
\* .no files, and a run that exits with 0 has written both completely.
C23_NoPartialArtifact ==
    pc = "exited" =>
        IF exit_code = 1
        THEN ns = run.before /\ no = run.before
        ELSE /\ ns = Written(AsmLines(instructions))
             /\ no = Written(Bytecode(instructions, 1))

\* --------------------------------------- observations of the scope stack
\* the events of the statements that can come next, and of the last one
BorrowEvents == NextEvents(MutBorrowExprs \cup LetInits) \cup TrailingEvents

\* ev is a successful `&mut name` of a name that resolves to a variable
SuccessfulMutBorrow(ev) ==
    /\ IsMutBorrowOfIdent(ev.e)
    /\ ev.ok
    /\ ResolvesToVariable(ev.pre, ev.e.sub[1].a)

\* C24: the checker releases every scope it entered on every exit path: the
\* scope stack is empty whenever check_function has returned to the loop of
\* check_program, and when check_program has returned.
C24_ScopesReleased ==
    pc \in {"loop", "done"} => scopes = <<>>

\* C25: a successful `&mut v` replaces the stored type of v by MutRef(previous
\* stored type) in every frame that holds a binding named v, and changes
\* nothing else: not the is_mut flag of those bindings, not the entry of any
\* other name, not the number of frames.
C25_BorrowFrameEffect ==
    \A ev \in BorrowEvents :
        SuccessfulMutBorrow(ev) =>
            /\ Len(ev.post) = Len(ev.pre)
            /\ \A i \in DOMAIN ev.pre :
                  /\ DOMAIN ev.post[i] = DOMAIN ev.pre[i]
                  /\ \A n \in DOMAIN ev.pre[i] :
                        IF n = ev.e.sub[1].a
                        THEN /\ ev.post[i][n].type
                                    = MakeRef("MutRef", ev.pre[i][n].type)
                             /\ ev.post[i][n].is_mut = ev.pre[i][n].is_mut
                        ELSE ev.post[i][n] = ev.pre[i][n]

\* the binding that name resolves to in sc was mutably borrowed in a scope
\* nested in the current one, which has been exited since
BorrowedInExitedScope(sc, name) ==
    LET i == FrameOf(sc, name, Len(sc))
    IN  i # 0 /\ sc[i][name].at > Len(sc)

\* C26: a mutable borrow is not released when the nested scope it was made in
\* is exited: every later assignment to the variable and every later `&mut`
\* of it is rejected.
C26_BorrowOutlivesScope ==
    \A ev \in NextEvents(MutBorrowExprs \cup AssignmentExprs) \cup TrailingEvents :
        LET name == ev.e.sub[1].a
        IN  (/\ IsMutBorrowOfIdent(ev.e) \/ IsAssignmentToIdent(ev.e)
             /\ ResolvesToVariable(ev.pre, name)
             /\ BorrowedInExitedScope(ev.pre, name))
               => /\ ~ev.ok
                  /\ ev.post = ev.pre
                  /\ ev.err = IF IsMutBorrowOfIdent(ev.e)
                              THEN <<"Variable already mutably borrowed", name>>
                              ELSE <<"Cannot use variable while mutably borrowed",
                                     name>>

\* x was borrowed in a nested block of the body, the block was left, and
\* the next statement of the body can be `x = 1` and can be `&mut x`
C26_Witness ==
    /\ AtStatement
    /\ Len(scopes) = 2
    /\ nblocks > 0
    /\ BorrowedInExitedScope(scopes, "x")
    /\ \E ev \in EventsOf(BinaryExpr("Assignment", X, IntLiteral)) :
          IsAssignmentToIdent(ev.e) /\ ~ev.ok
    /\ \E ev \in EventsOf(BorrowExpr(TRUE, X)) :
          IsMutBorrowOfIdent(ev.e) /\ ~ev.ok

\* C27: a mutable borrow whose operand is not an identifier is rejected, and
\* when the operand is a literal the error is "Cannot borrow immutable
\* variable as mutable".
C27_MutBorrowOfNonIdentifier ==
    \A ev \in NextEvents(MutBorrowExprs) \cup TrailingEvents :
        (ev.e.k = "borrow" /\ ev.e.a = "mut" /\ ev.e.sub[1].k # "ident")
            => /\ ~ev.ok
               /\ ev.e.sub[1] = IntLiteral
                    => ev.err = <<"Cannot borrow immutable variable as mutable", "">>

\* C28: an identifier that resolves to a variable is given the type written
\* in the variable's declaration, also after the variable has been mutably
\* borrowed.
C28_IdentifierHasDeclaredType ==
    \A ev \in NextEvents(Exprs \cup LetInits) \cup TrailingEvents :
        (ev.e.k = "ident" /\ ev.ok /\ ResolvesToVariable(ev.pre, ev.e.a))
            => ev.ty = ev.pre[FrameOf(ev.pre, ev.e.a, Len(ev.pre))][ev.e.a].decl

\* C29: "Cannot use variable while mutably borrowed" and "Variable already
\* mutably borrowed" are reported only of a binding of which a `&mut` was
\* checked successfully before.
C29_ReportedOnlyIfBorrowed ==
    \A ev \in NextEvents(MutBorrowExprs \cup AssignmentExprs \cup LetInits)
                \cup TrailingEvents :
        (/\ IsMutBorrowOfIdent(ev.e) \/ IsAssignmentToIdent(ev.e)
         /\ ~ev.ok
         /\ ev.err \in {<<"Variable already mutably borrowed", ev.e.sub[1].a>>,
                        <<"Cannot use variable while mutably borrowed",
                          ev.e.sub[1].a>>})
            => Borrowed(ev.pre, ev.e.sub[1].a)

\* C30: a function whose trailing expression is a `&mut v` that was accepted
\* inside the body, with the type the function declares it returns, is
\* accepted and no error is recorded.
C30_TrailingBorrowCheckedOnce ==
    (/\ pc \in {"loop", "done"}
     /\ trailing # <<>>
     /\ IsMutBorrowOfIdent(trailing[1].e)
     /\ trailing[1].ok
     /\ trailing[1].ty = program[ReturnedFunction].ret)
        => success /\ errors = <<>>

====
